---- MODULE Spec2Model ----
(***************************************************************************)
(* A model of the one-time-password library github.com/Ja7ad/otp:          *)
(* secret decoding, RFC 4226 derivation (HMAC, dynamic truncation, decimal *)
(* formatting) and the HOTP / TOTP generate and validate entry points.     *)
(*                                                                         *)
(* Text is modelled as a sequence of one-character strings, binary data as *)
(* a sequence of bytes 0..255, a uint64 as four 16-bit limbs (most         *)
(* significant first) so that the 64-bit wrap-around and the int64 sign    *)
(* bit of the counter arithmetic are kept.                                 *)
(***************************************************************************)
EXTENDS Integers, Sequences, FiniteSets, TLC

(***************************************************************************)
(* Bounds of the model                                                     *)
(***************************************************************************)
\* counters 0..MaxSmallCounter are used next to the counters around 2^63 and 2^64
MaxSmallCounter == 1
\* skews SkewCap+1..MaxSkew are the over-the-cap skews that are tried
MaxSkew == 11
\* digit counts above the table, mod10Len..MaxDigits, that are tried
MaxDigits == 11
\* Unix times 0..MaxTime are tried
MaxTime == 1
\* the keyed hash is one of the worlds 0..MaxWorld
MaxWorld == 0
\* secret texts of 0..MaxSecretLen characters are decoded
MaxSecretLen == 4

(***************************************************************************)
(* Generic helpers                                                         *)
(***************************************************************************)
Range(s) == {s[i] : i \in DOMAIN s}

Pow2(n) == 2 ^ n

RECURSIVE SumSeq(_)
SumSeq(s) == IF s = <<>> THEN 0 ELSE Head(s) + SumSeq(Tail(s))

\* a sequence of n copies of x
Repeat(x, n) == [i \in 1..n |-> x]

(***************************************************************************)
(* strings.TrimSpace, strings.ToUpper                                      *)
(***************************************************************************)
Lower == <<"a","b","c","d","e","f","g","h","i","j","k","l","m",
           "n","o","p","q","r","s","t","u","v","w","x","y","z">>
Upper == <<"A","B","C","D","E","F","G","H","I","J","K","L","M",
           "N","O","P","Q","R","S","T","U","V","W","X","Y","Z">>

WhiteSpace == {" ", "\t", "\n", "\r"}

\* the upper-case letter of each lower-case letter
UpperOf == [c \in Range(Lower) |-> Upper[CHOOSE i \in 1..26 : Lower[i] = c]]

ToUpperChar(c) == IF c \in DOMAIN UpperOf THEN UpperOf[c] ELSE c

ToUpper(s) == [i \in 1..Len(s) |-> ToUpperChar(s[i])]

RECURSIVE TrimLeft(_)
TrimLeft(s) ==
    IF s # <<>> /\ Head(s) \in WhiteSpace THEN TrimLeft(Tail(s)) ELSE s

RECURSIVE TrimRight(_)
TrimRight(s) ==
    IF s # <<>> /\ s[Len(s)] \in WhiteSpace
    THEN TrimRight(SubSeq(s, 1, Len(s) - 1))
    ELSE s

TrimSpace(s) == TrimRight(TrimLeft(s))

(***************************************************************************)
(* encoding/base32 StdEncoding.DecodeString                                *)
(***************************************************************************)
B32Alphabet == Upper \o <<"2","3","4","5","6","7">>

\* the 5-bit value of each character of the alphabet
B32Value == [c \in Range(B32Alphabet) |-> (CHOOSE i \in 1..32 : B32Alphabet[i] = c) - 1]

\* decodeMap: the 5-bit value of a character, 255 when it is not in the alphabet
decodeMap(c) == IF c \in DOMAIN B32Value THEN B32Value[c] ELSE 255

stripNewlines(s) == SelectSeq(s, LAMBDA c : c \notin {"\r", "\n"})

\* the bytes packed from the first dlen 5-bit groups of a quantum
PackQuantum(d, dlen) ==
    LET b0 == ((d[1] * 8) + (d[2] \div 4)) % 256
        b1 == ((d[2] * 64) + (d[3] * 2) + (d[4] \div 16)) % 256
        b2 == ((d[4] * 16) + (d[5] \div 2)) % 256
        b3 == ((d[5] * 128) + (d[6] * 4) + (d[7] \div 8)) % 256
        b4 == ((d[7] * 32) + d[8]) % 256
    IN  CASE dlen = 8 -> <<b0, b1, b2, b3, b4>>
          [] dlen = 7 -> <<b0, b1, b2, b3>>
          [] dlen = 5 -> <<b0, b1, b2>>
          [] dlen = 4 -> <<b0, b1>>
          [] dlen = 2 -> <<b0>>

\* one quantum of the decoder's inner loop: reads up to 8 characters of src.
\* Result: ok, the number dlen of data characters, the 5-bit groups, the rest
\* of the input and whether padding ended the input.
RECURSIVE DecodeQuantum(_, _, _)
DecodeQuantum(src, j, dbuf) ==
    IF j = 8 THEN [ok |-> TRUE, dlen |-> 8, dbuf |-> dbuf, rest |-> src, end |-> FALSE]
    ELSE IF src = <<>> THEN [ok |-> FALSE]
    ELSE LET in   == Head(src)
             rest == Tail(src)
         IN  IF in = "=" /\ j >= 2 /\ Len(rest) < 8
             THEN IF Len(rest) + j < 8 - 1 THEN [ok |-> FALSE]
                  ELSE IF \E k \in 0..(8 - 1 - j - 1) :
                              Len(rest) > k /\ rest[k + 1] # "="
                  THEN [ok |-> FALSE]
                  ELSE IF j \in {1, 3, 6} THEN [ok |-> FALSE]
                  ELSE [ok |-> TRUE, dlen |-> j,
                        dbuf |-> dbuf \o Repeat(0, 8 - j),
                        rest |-> rest, end |-> TRUE]
             ELSE IF decodeMap(in) = 255 THEN [ok |-> FALSE]
             ELSE DecodeQuantum(rest, j + 1, Append(dbuf, decodeMap(in)))

RECURSIVE B32Decode(_, _)
B32Decode(src, out) ==
    IF src = <<>> THEN [ok |-> TRUE, bytes |-> out]
    ELSE LET q == DecodeQuantum(src, 0, <<>>)
         IN  IF ~q.ok THEN [ok |-> FALSE, bytes |-> <<>>]
             ELSE IF q.end THEN [ok |-> TRUE, bytes |-> out \o PackQuantum(q.dbuf, q.dlen)]
             ELSE B32Decode(q.rest, out \o PackQuantum(q.dbuf, q.dlen))

DecodeString(s) == B32Decode(stripNewlines(s), <<>>)

(***************************************************************************)
(* DecodeSecret                                                            *)
(***************************************************************************)
DecodeSecret(secret) ==
    LET trimmed == TrimSpace(secret)
        n       == Len(trimmed) % 8
        padded  == IF n # 0 THEN trimmed \o Repeat("=", 8 - n) ELSE trimmed
    IN  DecodeString(ToUpper(padded))

(***************************************************************************)
(* uint64: four 16-bit limbs, most significant first                       *)
(***************************************************************************)
Limb == 65536

U64(n) == <<0, 0, n \div Limb, n % Limb>>

\* counter + uint64(n) for 0 <= n < 2^16, wrapping at 2^64
U64Add(c, n) ==
    LET s4 == c[4] + n
        s3 == c[3] + (s4 \div Limb)
        s2 == c[2] + (s3 \div Limb)
        s1 == c[1] + (s2 \div Limb)
    IN  <<s1 % Limb, s2 % Limb, s3 % Limb, s4 % Limb>>

\* counter - uint64(n) for 0 <= n < 2^16, wrapping at 0
U64Sub(c, n) ==
    LET d4 == c[4] - n
        b4 == IF d4 < 0 THEN 1 ELSE 0
        d3 == c[3] - b4
        b3 == IF d3 < 0 THEN 1 ELSE 0
        d2 == c[2] - b3
        b2 == IF d2 < 0 THEN 1 ELSE 0
        d1 == c[1] - b2
    IN  <<d1 % Limb, d2 % Limb, d3 % Limb, d4 % Limb>>

\* c < n as unsigned values, for a small n > 0
U64Below(c, n) == c[1] = 0 /\ c[2] = 0 /\ c[3] = 0 /\ c[4] < n

\* int64(c) < n for a small n > 0: the value is negative, or below n
Int64Less(c, n) == c[1] >= Limb \div 2 \/ U64Below(c, n)

\* binary.BigEndian.PutUint64
PutUint64(c) ==
    <<c[1] \div 256, c[1] % 256, c[2] \div 256, c[2] % 256,
      c[3] \div 256, c[3] % 256, c[4] \div 256, c[4] % 256>>

(***************************************************************************)
(* Types and constants of the package                                      *)
(***************************************************************************)
SHA1 == 0
SHA256 == 1
SHA512 == 2

SixDigits == 6
EightDigits == 8
NineDigits == 9
TenDigits == 10

\* the largest accepted Param.Skew
SkewCap == 10

\* the period ValidateTOTP uses for Param.Period = 0
DefaultPeriod == 30

maskOffset == 15

\* mod10, a Go array indexed from 0
mod10 == <<0, 10, 100, 1000, 10000, 100000, 1000000,
           10000000, 100000000, 1000000000, 1000000000>>

\* len(hmacPools)
hmacPoolsLen == 3

\* digest sizes of sha1, sha256, sha512
HashSize(algo) == CASE algo = SHA1 -> 20 [] algo = SHA256 -> 32 [] algo = SHA512 -> 64

(***************************************************************************)
(* The keyed hash.  crypto/hmac is a library outside the package.  A world *)
(* says which keyed hash the calls compute:                                *)
(*   "mix"   a deterministic function of (algorithm, key, message), one    *)
(*           per number n, whose digests have the real lengths;            *)
(*   "fixed" a hash whose digest carries the four bytes bin at offset off, *)
(*           so that the truncation meets chosen 31-bit values;            *)
(*   "sha"   the real HMAC-SHA1, tabulated for the keys and messages of    *)
(*           the calls that are made.                                      *)
(* The messages of HOTP and TOTP are the 8 bytes of a counter.             *)
(***************************************************************************)
MixWorld(k) ==
    [kind |-> "mix", n |-> k, off |-> 0, bin |-> <<0, 0, 0, 0>>, table |-> <<>>]

FixedWorld(fill, off, bin) ==
    [kind |-> "fixed", n |-> fill, off |-> off, bin |-> bin, table |-> <<>>]

\* a number that depends on every byte of the message and on its position
MsgMix(m) ==
    (m[1] * 3 + m[2] * 5 + m[3] * 7 + m[4] * 11 + m[5] * 13 + m[6] * 17
     + m[7] * 19 + m[8] * 23) % 65521

\* a number that depends on the length of the key and on bytes of it
KeyMix(key) ==
    IF key = <<>> THEN 0
    ELSE Len(key) * 257 + key[1] * 3 + key[(Len(key) + 1) \div 2] * 5 + key[Len(key)] * 7

MixSum(n, algo, key, msg) ==
    LET seed == (MsgMix(msg) * (2 * n + 3) + KeyMix(key) * 7
                 + (algo + 1) * 8191 + n * 977) % 65521
        step == seed % 251
    IN  [i \in 1..HashSize(algo) |-> ((seed + 17 * i) * (step + i) + (seed \div (i + 1))) % 256]

\* a digest of the given size: bin at off, off in the low nibble of the last byte
FixedSum(world, size) ==
    [i \in 1..size |->
        IF i > world.off /\ i <= world.off + 4 THEN world.bin[i - world.off]
        ELSE IF i = size THEN (world.n \div 16) * 16 + world.off
        ELSE world.n]

(***************************************************************************)
(* HMAC-SHA1 as crypto/hmac and crypto/sha1 compute it (RFC 2104, FIPS     *)
(* 180-4).  A 32-bit word is the sequence of its 32 bits, most significant *)
(* first; every word is built as a tuple, never kept as an unevaluated     *)
(* function.                                                               *)
(***************************************************************************)
ByteBits(b) == <<(b \div 128) % 2, (b \div 64) % 2, (b \div 32) % 2, (b \div 16) % 2,
                 (b \div 8) % 2, (b \div 4) % 2, (b \div 2) % 2, b % 2>>

BitsByte(w, k) == w[k] * 128 + w[k + 1] * 64 + w[k + 2] * 32 + w[k + 3] * 16
                  + w[k + 4] * 8 + w[k + 5] * 4 + w[k + 6] * 2 + w[k + 7]

WordOf(b1, b2, b3, b4) == ByteBits(b1) \o ByteBits(b2) \o ByteBits(b3) \o ByteBits(b4)

WordBytes(w) == <<BitsByte(w, 1), BitsByte(w, 9), BitsByte(w, 17), BitsByte(w, 25)>>

\* the 16 bits of w from bit k on, as a number
Half(w, k) == BitsByte(w, k) * 256 + BitsByte(w, k + 8)

HalfBits(h) == ByteBits(h \div 256) \o ByteBits(h % 256)

Xor(a, b) == SubSeq([i \in 1..32 |-> (a[i] + b[i]) % 2], 1, 32)

\* (b AND c) OR ((NOT b) AND d)
Ch(b, c, d) == SubSeq([i \in 1..32 |-> IF b[i] = 1 THEN c[i] ELSE d[i]], 1, 32)

\* (b AND c) OR (b AND d) OR (c AND d)
Maj(b, c, d) == SubSeq([i \in 1..32 |-> IF b[i] + c[i] + d[i] >= 2 THEN 1 ELSE 0], 1, 32)

RotL(a, n) == SubSeq([i \in 1..32 |-> a[((i - 1 + n) % 32) + 1]], 1, 32)

\* the sum of the words of ws modulo 2^32, added as 16-bit halves
RECURSIVE SumHalf(_, _)
SumHalf(ws, k) == IF ws = <<>> THEN 0 ELSE Half(Head(ws), k) + SumHalf(Tail(ws), k)

AddWords(ws) ==
    LET lo == SumHalf(ws, 17)
        hi == SumHalf(ws, 1) + (lo \div 65536)
    IN  HalfBits(hi % 65536) \o HalfBits(lo % 65536)

Sha1K(t) == IF t < 20 THEN WordOf(90, 130, 121, 153)
            ELSE IF t < 40 THEN WordOf(110, 217, 235, 161)
            ELSE IF t < 60 THEN WordOf(143, 27, 188, 220)
            ELSE WordOf(202, 98, 193, 214)

Sha1F(t, b, c, d) ==
    IF t < 20 THEN Ch(b, c, d)
    ELSE IF t < 40 THEN Xor(Xor(b, c), d)
    ELSE IF t < 60 THEN Maj(b, c, d)
    ELSE Xor(Xor(b, c), d)

Sha1Init == <<WordOf(103, 69, 35, 1), WordOf(239, 205, 171, 137), WordOf(152, 186, 220, 254),
              WordOf(16, 50, 84, 118), WordOf(195, 210, 225, 240)>>

\* the message schedule grown from lo words to hi words
RECURSIVE Sha1Schedule(_, _, _)
Sha1Schedule(ws, lo, hi) ==
    IF hi - lo = 1
    THEN Append(ws, RotL(Xor(Xor(ws[lo - 2], ws[lo - 7]), Xor(ws[lo - 13], ws[lo - 15])), 1))
    ELSE LET mid   == (lo + hi) \div 2
             first == Sha1Schedule(ws, lo, mid)
         IN  IF Len(first) = mid THEN Sha1Schedule(first, mid, hi) ELSE <<>>

\* round t on the working variables v = <<a, b, c, d, e>>
Sha1Round(t, v, ws) ==
    <<AddWords(<<RotL(v[1], 5), Sha1F(t, v[2], v[3], v[4]), v[5], Sha1K(t), ws[t + 1]>>),
      v[1], RotL(v[2], 30), v[3], v[4]>>

\* rounds lo .. hi - 1
RECURSIVE Sha1Rounds(_, _, _, _)
Sha1Rounds(lo, hi, v, ws) ==
    IF hi - lo = 1 THEN Sha1Round(lo, v, ws)
    ELSE LET mid   == (lo + hi) \div 2
             first == Sha1Rounds(lo, mid, v, ws)
         IN  IF Len(first) = 5 THEN Sha1Rounds(mid, hi, first, ws) ELSE <<>>

Sha1Block(h, block) ==
    LET w16 == SubSeq([i \in 1..16 |-> WordOf(block[4 * i - 3], block[4 * i - 2],
                                              block[4 * i - 1], block[4 * i])], 1, 16)
        ws  == Sha1Schedule(w16, 16, 80)
        v   == Sha1Rounds(0, 80, h, ws)
    IN  <<AddWords(<<h[1], v[1]>>), AddWords(<<h[2], v[2]>>), AddWords(<<h[3], v[3]>>),
          AddWords(<<h[4], v[4]>>), AddWords(<<h[5], v[5]>>)>>

\* the message followed by 0x80, zeros and its length in bits as 8 bytes
Sha1Pad(msg) ==
    LET n     == Len(msg)
        zeros == (119 - (n % 64)) % 64
        bits  == n * 8
    IN  msg \o <<128>> \o Repeat(0, zeros)
        \o <<0, 0, 0, 0, 0, (bits \div 65536) % 256, (bits \div 256) % 256, bits % 256>>

RECURSIVE Sha1Blocks(_, _)
Sha1Blocks(h, data) ==
    IF data = <<>> THEN h
    ELSE LET next == Sha1Block(h, SubSeq(data, 1, 64))
         IN  IF Len(next) = 5 THEN Sha1Blocks(next, SubSeq(data, 65, Len(data))) ELSE <<>>

Sha1(msg) ==
    LET h == Sha1Blocks(Sha1Init, Sha1Pad(msg))
    IN  WordBytes(h[1]) \o WordBytes(h[2]) \o WordBytes(h[3]) \o WordBytes(h[4])
        \o WordBytes(h[5])

XorByte(a, b) ==
    LET p == ByteBits(a)
        q == ByteBits(b)
    IN  BitsByte(<<(p[1] + q[1]) % 2, (p[2] + q[2]) % 2, (p[3] + q[3]) % 2, (p[4] + q[4]) % 2,
                   (p[5] + q[5]) % 2, (p[6] + q[6]) % 2, (p[7] + q[7]) % 2, (p[8] + q[8]) % 2>>, 1)

\* the key as hmac.New keeps it: hashed when longer than a block, zero-padded
HmacKey(key) ==
    LET k0 == IF Len(key) > 64 THEN Sha1(key) ELSE key
    IN  k0 \o Repeat(0, 64 - Len(k0))

HmacPad(k, b) == SubSeq([i \in 1..64 |-> XorByte(k[i], b)], 1, 64)

\* each intermediate value is computed once and bound before its use
HmacSha1(key, msg) ==
    CHOOSE sum \in UNION {{Sha1(HmacPad(k, 92) \o inner) :
                              inner \in {Sha1(HmacPad(k, 54) \o msg)}} :
                          k \in {HmacKey(key)}} : TRUE

\* HMAC-SHA1 on the given keys and messages
ShaWorld(keys, msgs) ==
    [kind |-> "sha", n |-> 0, off |-> 0, bin |-> <<0, 0, 0, 0>>,
     table |-> [q \in {SHA1} \X keys \X msgs |-> HmacSha1(q[2], q[3])]]

\* mac := hp.new(secret); mac.Write(msg); sum := mac.Sum(nil)
hmacSum(world, algo, key, msg) ==
    IF world.kind = "sha" THEN world.table[<<algo, key, msg>>]
    ELSE IF world.kind = "fixed" THEN FixedSum(world, HashSize(algo))
    ELSE MixSum(world.n, algo, key, msg)

(***************************************************************************)
(* Results of a call: the returned value and error, or the panic that      *)
(* aborted it.                                                             *)
(***************************************************************************)
Ok(v) == [val |-> v, err |-> "nil", panic |-> "none"]
Fail(v, e) == [val |-> v, err |-> e, panic |-> "none"]
Panic(p) == [val |-> <<>>, err |-> "nil", panic |-> p]

(***************************************************************************)
(* Dynamic truncation and decimal formatting                               *)
(***************************************************************************)
\* the truncation with the offset taken from the first byte of the digest:
\* C7 tells it from the code
DynamicBinCodeFirstByte(sum) ==
    LET offset == sum[1] % (maskOffset + 1)
    IN  (sum[offset + 1] % 128) * 16777216 + sum[offset + 2] * 65536
        + sum[offset + 3] * 256 + sum[offset + 4]

\* the 31-bit value read at the offset given by the low nibble of the last byte
DynamicBinCode(sum) ==
    LET offset == sum[Len(sum)] % (maskOffset + 1)
    IN  (sum[offset + 1] % 128) * 16777216 + sum[offset + 2] * 65536
        + sum[offset + 3] * 256 + sum[offset + 4]

truncate(sum, mod) == DynamicBinCode(sum) % mod

\* first loop of shortDigit: the digits of otp, written right to left
RECURSIVE shortDigitFill(_, _, _)
shortDigitFill(pad, otp, i) ==
    IF otp > 0 /\ i >= 0
    THEN shortDigitFill([pad EXCEPT ![i + 1] = 48 + (otp % 10)], otp \div 10, i - 1)
    ELSE [pad |-> pad, i |-> i]

\* second loop of shortDigit: '0' in the positions left of them
RECURSIVE shortDigitZero(_, _)
shortDigitZero(pad, i) ==
    IF i >= 0 THEN shortDigitZero([pad EXCEPT ![i + 1] = 48], i - 1) ELSE pad

\* shortDigit without its second loop: C5 tells it from the code
shortDigitUnfilled(otp, digits) ==
    SubSeq(shortDigitFill(Repeat(0, 8), otp, digits - 1).pad, 1, digits)

shortDigit(otp, digits) ==
    LET filled == shortDigitFill(Repeat(0, 8), otp, digits - 1)
    IN  SubSeq(shortDigitZero(filled.pad, filled.i), 1, digits)

RECURSIVE longDigitLoop(_, _, _)
longDigitLoop(out, otp, i) ==
    IF i >= 0
    THEN longDigitLoop([out EXCEPT ![i + 1] = 48 + (otp % 10)], otp \div 10, i - 1)
    ELSE out

longDigit(otp, digits) == longDigitLoop(Repeat(0, digits), otp, digits - 1)

(***************************************************************************)
(* deriveRFC4226 (deriveOTP in the callers that predate its renaming)      *)
(***************************************************************************)
\* the end of deriveRFC4226: the formatting of the truncated value
deriveRFC4226Format(otp, digits) ==
    IF digits <= 8 THEN Ok(shortDigit(otp, digits)) ELSE Ok(longDigit(otp, digits))

\* deriveRFC4226 from the digest on: mod10[digits] and the division by it
deriveRFC4226Truncate(sum, digits) ==
    IF digits < 0 \/ digits >= Len(mod10) THEN Panic("index out of range")
    ELSE IF mod10[digits + 1] = 0 THEN Panic("integer divide by zero")
    ELSE deriveRFC4226Format(truncate(sum, mod10[digits + 1]), digits)

deriveRFC4226(world, secret, counter, digits, algo) ==
    IF algo < 0 \/ algo >= hmacPoolsLen THEN Fail(<<>>, "ErrUnsupportedAlgorithm")
    ELSE deriveRFC4226Truncate(hmacSum(world, algo, secret, PutUint64(counter)), digits)

(***************************************************************************)
(* Param and the package defaults.  A *Param argument is <<>> for nil and  *)
(* <<p>> for a pointer to the Param p.                                     *)
(***************************************************************************)
DefaultHOTPParam == [Digits |-> SixDigits, Algorithm |-> SHA1, Period |-> 0, Skew |-> 2]

DefaultTOTPParam == [Digits |-> SixDigits, Period |-> 30, Skew |-> 0, Algorithm |-> SHA1]

\* the time step rounded up: C8 tells it from the code
TimeCounterFuncCeil(t, period) == U64((t + period - 1) \div period)

\* TimeCounterFunc for a time at or after the epoch and a period > 0
TimeCounterFunc(t, period) == U64(t \div period)

(***************************************************************************)
(* Validation of one candidate counter                                     *)
(***************************************************************************)
\* subtle.ConstantTimeCompare(a, b) == 1
ConstantTimeCompare(a, b) == Len(a) = Len(b) /\ \A i \in 1..Len(a) : a[i] = b[i]

\* a validation result also tells how many derivations were made
WithDerived(r, n) == [val |-> r.val, err |-> r.err, panic |-> r.panic, derived |-> n]

\* validateOTP after the length check: the derived code is excepted
validateOTPCompare(code, excepted) ==
    IF excepted.panic # "none" THEN WithDerived(excepted, 1)
    ELSE IF excepted.err # "nil" THEN WithDerived(Fail(FALSE, excepted.err), 1)
    ELSE IF ConstantTimeCompare(code, excepted.val) THEN WithDerived(Ok(TRUE), 1)
    ELSE WithDerived(Fail(FALSE, "ErrInvalidCode"), 1)

\* a validateOTP that derives whatever the length of the code
validateOTPNoLengthCheck(world, code, secret, counter, digits, algo) ==
    validateOTPCompare(code, deriveRFC4226(world, secret, counter, digits, algo))

validateOTP(world, code, secret, counter, digits, algo) ==
    IF Len(code) # digits THEN WithDerived(Fail(FALSE, "ErrInvalidCodeLength"), 0)
    ELSE validateOTPCompare(code, deriveRFC4226(world, secret, counter, digits, algo))

\* validate, with the result of deriveFn, which it calls after the length check
validate(code, expectedLength, derived) ==
    IF Len(code) # expectedLength THEN WithDerived(Fail(FALSE, "ErrInvalidCodeLength"), 0)
    ELSE IF derived.panic # "none" THEN WithDerived(derived, 1)
    ELSE IF derived.err # "nil" THEN WithDerived(Fail(FALSE, derived.err), 1)
    ELSE IF ConstantTimeCompare(code, derived.val) THEN WithDerived(Ok(TRUE), 1)
    ELSE WithDerived(Fail(FALSE, "ErrInvalidCode"), 1)

validateRFC4226(world, code, secret, counter, digits, algo) ==
    validate(code, digits, deriveRFC4226(world, secret, counter, digits, algo))

(***************************************************************************)
(* HOTP                                                                    *)
(***************************************************************************)
\* what a validation call did: the counters it tried, in order, the number
\* of derivations it made, and whether it decoded the secret
Trace(tested, derived, decoded) ==
    [tested |-> tested, derived |-> derived, decoded |-> decoded]

WithTrace(r, tr) == [val |-> r.val, err |-> r.err, panic |-> r.panic, trace |-> tr]

GenerateHOTP(world, secret, counter, param) ==
    LET p         == IF param = <<>> THEN DefaultHOTPParam ELSE param[1]
        secretBuf == DecodeSecret(secret)
    IN  IF ~secretBuf.ok THEN Fail(<<>>, "CorruptInputError")
        ELSE deriveRFC4226(world, secretBuf.bytes, counter, p.Digits, p.Algorithm)

RECURSIVE ValidateHOTPLoop(_, _, _, _, _, _, _, _)

\* the end of one iteration: r is what validateOTP returned for the counter c
ValidateHOTPStep(world, code, secretBuf, counter, p, i, tested, derived, c, r) ==
    IF r.panic # "none"
    THEN WithTrace(r, Trace(Append(tested, c), derived + r.derived, TRUE))
    ELSE IF r.err = "nil" /\ r.val
    THEN WithTrace(Ok(TRUE), Trace(Append(tested, c), derived + r.derived, TRUE))
    ELSE ValidateHOTPLoop(world, code, secretBuf, counter, p, i + 1,
                          Append(tested, c), derived + r.derived)

\* one iteration for the counter c
ValidateHOTPTry(world, code, secretBuf, counter, p, i, tested, derived, c) ==
    ValidateHOTPStep(world, code, secretBuf, counter, p, i, tested, derived, c,
                     validateOTP(world, code, secretBuf, c, p.Digits, p.Algorithm))

\* the loop with its upper end excluded (i < skew): C1 tells it from the code
ValidateHOTPLoopExclusive(world, code, secretBuf, counter, p, i, tested, derived) ==
    IF i >= p.Skew THEN WithTrace(Fail(FALSE, "ErrInvalidCode"), Trace(tested, derived, TRUE))
    ELSE IF i < 0 /\ Int64Less(counter, -i)
    THEN ValidateHOTPLoop(world, code, secretBuf, counter, p, i + 1, tested, derived)
    ELSE ValidateHOTPTry(world, code, secretBuf, counter, p, i, tested, derived,
                         IF i < 0 THEN U64Sub(counter, -i) ELSE U64Add(counter, i))

\* the loop of ValidateHOTP from position i on
ValidateHOTPLoop(world, code, secretBuf, counter, p, i, tested, derived) ==
    IF i > p.Skew THEN WithTrace(Fail(FALSE, "ErrInvalidCode"), Trace(tested, derived, TRUE))
    ELSE IF i < 0 /\ Int64Less(counter, -i)
    THEN ValidateHOTPLoop(world, code, secretBuf, counter, p, i + 1, tested, derived)
    ELSE ValidateHOTPTry(world, code, secretBuf, counter, p, i, tested, derived,
                         IF i < 0 THEN U64Sub(counter, -i) ELSE U64Add(counter, i))

\* ValidateHOTP with the secret decoded before the skew is checked: C3 tells
\* it from the code
ValidateHOTPDecodeFirst(world, secret, code, counter, param) ==
    LET p         == IF param = <<>> THEN DefaultHOTPParam ELSE param[1]
        secretBuf == DecodeSecret(secret)
    IN  IF ~secretBuf.ok
        THEN WithTrace(Fail(FALSE, "CorruptInputError"), Trace(<<>>, 0, TRUE))
        ELSE IF p.Skew > SkewCap
        THEN WithTrace(Fail(FALSE, "ErrInvalidSkew"), Trace(<<>>, 0, TRUE))
        ELSE ValidateHOTPLoop(world, code, secretBuf.bytes, counter, p, -p.Skew, <<>>, 0)

ValidateHOTP(world, secret, code, counter, param) ==
    LET p == IF param = <<>> THEN DefaultHOTPParam ELSE param[1]
    IN  IF p.Skew > SkewCap
        THEN WithTrace(Fail(FALSE, "ErrInvalidSkew"), Trace(<<>>, 0, FALSE))
        ELSE LET secretBuf == DecodeSecret(secret)
             IN  IF ~secretBuf.ok
                 THEN WithTrace(Fail(FALSE, "CorruptInputError"), Trace(<<>>, 0, TRUE))
                 ELSE ValidateHOTPLoop(world, code, secretBuf.bytes, counter, p,
                                       -p.Skew, <<>>, 0)

(***************************************************************************)
(* TOTP                                                                    *)
(***************************************************************************)
GenerateTOTP(world, secret, t, param) ==
    LET p         == IF param = <<>> THEN DefaultTOTPParam ELSE param[1]
        secretBuf == DecodeSecret(secret)
    IN  IF ~secretBuf.ok THEN Fail(<<>>, "CorruptInputError")
        ELSE IF p.Period = 0 THEN Panic("integer divide by zero")
        ELSE deriveRFC4226(world, secretBuf.bytes, TimeCounterFunc(t, p.Period),
                           p.Digits, p.Algorithm)

RECURSIVE ValidateTOTPLoop(_, _, _, _, _, _, _, _)

\* the end of one iteration: r is what validateRFC4226 returned for the counter c
ValidateTOTPStep(world, code, secretBuf, counter, p, i, tested, derived, c, r) ==
    IF r.panic # "none"
    THEN WithTrace(r, Trace(Append(tested, c), derived + r.derived, TRUE))
    ELSE IF r.err = "nil" /\ r.val
    THEN WithTrace(Ok(TRUE), Trace(Append(tested, c), derived + r.derived, TRUE))
    ELSE ValidateTOTPLoop(world, code, secretBuf, counter, p, i + 1,
                          Append(tested, c), derived + r.derived)

\* one iteration for the counter c
ValidateTOTPTry(world, code, secretBuf, counter, p, i, tested, derived, c) ==
    ValidateTOTPStep(world, code, secretBuf, counter, p, i, tested, derived, c,
                     validateRFC4226(world, code, secretBuf, c, p.Digits, p.Algorithm))

\* the loop of ValidateTOTP from position i on; counter+uint64(i) wraps
ValidateTOTPLoop(world, code, secretBuf, counter, p, i, tested, derived) ==
    IF i > p.Skew THEN WithTrace(Fail(FALSE, "ErrInvalidCode"), Trace(tested, derived, TRUE))
    ELSE ValidateTOTPTry(world, code, secretBuf, counter, p, i, tested, derived,
                         IF i < 0 THEN U64Sub(counter, -i) ELSE U64Add(counter, i))

ValidateTOTP(world, secret, code, t, param) ==
    LET p         == IF param = <<>> THEN DefaultTOTPParam ELSE param[1]
        secretBuf == DecodeSecret(secret)
    IN  IF ~secretBuf.ok
        THEN WithTrace(Fail(FALSE, "CorruptInputError"), Trace(<<>>, 0, TRUE))
        ELSE LET period  == IF p.Period = 0 THEN DefaultPeriod ELSE p.Period
                 counter == TimeCounterFunc(t, period)
             IN  ValidateTOTPLoop(world, code, secretBuf.bytes, counter, p,
                                  -p.Skew, <<>>, 0)

(***************************************************************************)
(* OCRA (RFC 6287): the suite configuration, the inputs and the derivation *)
(***************************************************************************)
ChallengeNone == 0
ChallengeNumeric08 == 1
ChallengeNumeric10 == 2
ChallengeAlpha08 == 3
ChallengeAlpha10 == 4
ChallengeHex08 == 5
ChallengeHex10 == 6

PasswordNone == 0
PasswordSHA1 == 1
PasswordSHA256 == 2
PasswordSHA512 == 3

separator == 0

\* SuiteConfig.Validate: the error, or "nil"
\* a SuiteConfig.Validate without its last rule, on the challenge format
SuiteConfigValidateNoChallenge(cfg) ==
    IF cfg.Digits < 4 \/ cfg.Digits > 10 THEN "invalid digit length"
    ELSE IF cfg.Hash # SHA1 /\ cfg.Hash # SHA256 /\ cfg.Hash # SHA512
    THEN "unsupported hash algorithm"
    ELSE IF cfg.IncludePassword /\ cfg.PasswordHash = PasswordNone
    THEN "password input enabled but no password hash specified"
    ELSE IF cfg.IncludeTimestamp /\ cfg.TimeStep <= 0
    THEN "timestamp input enabled but invalid time step"
    ELSE "nil"

SuiteConfigValidate(cfg) ==
    IF cfg.Digits < 4 \/ cfg.Digits > 10 THEN "invalid digit length"
    ELSE IF cfg.Hash # SHA1 /\ cfg.Hash # SHA256 /\ cfg.Hash # SHA512
    THEN "unsupported hash algorithm"
    ELSE IF cfg.IncludePassword /\ cfg.PasswordHash = PasswordNone
    THEN "password input enabled but no password hash specified"
    ELSE IF cfg.IncludeTimestamp /\ cfg.TimeStep <= 0
    THEN "timestamp input enabled but invalid time step"
    ELSE IF cfg.IncludeChallenge /\ cfg.Challenge = ChallengeNone
    THEN "challenge input required but no challenge format set"
    ELSE "nil"

challengeLength(format) ==
    IF format \in {ChallengeNumeric08, ChallengeAlpha08, ChallengeHex08} THEN 8
    ELSE IF format \in {ChallengeNumeric10, ChallengeAlpha10, ChallengeHex10} THEN 10
    ELSE 0

\* an OCRAInput.Validate without the upper limit on the challenge
OCRAInputValidateNoLimit(in, cfg) ==
    IF cfg.IncludeCounter /\ Len(in.Counter) # 8 THEN "expected 8-byte counter"
    ELSE IF cfg.IncludeChallenge /\ Len(in.Challenge) < challengeLength(cfg.Challenge)
    THEN "challenge too short"
    ELSE IF cfg.IncludePassword /\ Len(in.Password) = 0
    THEN "password required but not provided"
    ELSE IF cfg.IncludePassword /\ cfg.PasswordHash = PasswordSHA1 /\ Len(in.Password) # 20
    THEN "PSHA1 password must be 20 bytes"
    ELSE IF cfg.IncludePassword /\ cfg.PasswordHash = PasswordSHA256 /\ Len(in.Password) # 32
    THEN "PSHA256 password must be 32 bytes"
    ELSE IF cfg.IncludePassword /\ cfg.PasswordHash = PasswordSHA512 /\ Len(in.Password) # 64
    THEN "PSHA512 password must be 64 bytes"
    ELSE IF cfg.IncludeSession /\ Len(in.SessionInfo) > 128 THEN "session info too long"
    ELSE IF cfg.IncludeTimestamp /\ Len(in.Timestamp) # 8 THEN "expected 8-byte timestamp"
    ELSE "nil"

\* OCRAInput.Validate: the error, or "nil"
OCRAInputValidate(in, cfg) ==
    IF cfg.IncludeCounter /\ Len(in.Counter) # 8 THEN "expected 8-byte counter"
    ELSE IF cfg.IncludeChallenge /\ Len(in.Challenge) < challengeLength(cfg.Challenge)
    THEN "challenge too short"
    ELSE IF cfg.IncludeChallenge /\ Len(in.Challenge) > 128 THEN "challenge too long"
    ELSE IF cfg.IncludePassword /\ Len(in.Password) = 0
    THEN "password required but not provided"
    ELSE IF cfg.IncludePassword /\ cfg.PasswordHash = PasswordSHA1 /\ Len(in.Password) # 20
    THEN "PSHA1 password must be 20 bytes"
    ELSE IF cfg.IncludePassword /\ cfg.PasswordHash = PasswordSHA256 /\ Len(in.Password) # 32
    THEN "PSHA256 password must be 32 bytes"
    ELSE IF cfg.IncludePassword /\ cfg.PasswordHash = PasswordSHA512 /\ Len(in.Password) # 64
    THEN "PSHA512 password must be 64 bytes"
    ELSE IF cfg.IncludeSession /\ Len(in.SessionInfo) > 128 THEN "session info too long"
    ELSE IF cfg.IncludeTimestamp /\ Len(in.Timestamp) # 8 THEN "expected 8-byte timestamp"
    ELSE "nil"

\* a padBytes that puts the zeros in front
padBytesLeft(input, length) ==
    IF Len(input) >= length THEN SubSeq(input, 1, length)
    ELSE Repeat(0, length - Len(input)) \o input

padBytes(input, length) ==
    IF Len(input) >= length THEN SubSeq(input, 1, length)
    ELSE input \o Repeat(0, length - Len(input))

RECURSIVE formatDecimalLoop(_, _, _)
formatDecimalLoop(out, val, i) ==
    IF i >= 0
    THEN formatDecimalLoop([out EXCEPT ![i + 1] = 48 + (val % 10)], val \div 10, i - 1)
    ELSE out

formatDecimal(val, digits) == formatDecimalLoop(Repeat(0, digits), val, digits - 1)

\* a message with the session info in it whether the suite includes it or not
OCRAMessageWithSession(cfg, in) ==
    cfg.Raw \o <<separator>>
    \o (IF cfg.IncludeCounter THEN padBytes(in.Counter, 8) ELSE <<>>)
    \o (IF cfg.IncludeChallenge THEN padBytes(in.Challenge, 128) ELSE <<>>)
    \o (IF cfg.IncludePassword THEN in.Password ELSE <<>>)
    \o padBytes(in.SessionInfo, 128)
    \o (IF cfg.IncludeTimestamp THEN padBytes(in.Timestamp, 8) ELSE <<>>)

\* the message deriveRFC6287 authenticates
OCRAMessage(cfg, in) ==
    cfg.Raw \o <<separator>>
    \o (IF cfg.IncludeCounter THEN padBytes(in.Counter, 8) ELSE <<>>)
    \o (IF cfg.IncludeChallenge THEN padBytes(in.Challenge, 128) ELSE <<>>)
    \o (IF cfg.IncludePassword THEN in.Password ELSE <<>>)
    \o (IF cfg.IncludeSession THEN padBytes(in.SessionInfo, 128) ELSE <<>>)
    \o (IF cfg.IncludeTimestamp THEN padBytes(in.Timestamp, 8) ELSE <<>>)

\* deriveRFC6287 for a SuiteConfig; its truncate takes the digit count and
\* reduces modulo the entry of mod10, as deriveRFC4226 does
deriveRFC6287(world, secret, cfg, in) ==
    IF SuiteConfigValidate(cfg) # "nil" THEN Fail(<<>>, SuiteConfigValidate(cfg))
    ELSE IF OCRAInputValidate(in, cfg) # "nil" THEN Fail(<<>>, OCRAInputValidate(in, cfg))
    ELSE Ok(formatDecimal(truncate(hmacSum(world, cfg.Hash, secret, OCRAMessage(cfg, in)),
                                   mod10[cfg.Digits + 1]), cfg.Digits))

(***************************************************************************)
(* OCRA suites.  A suite string is a sequence of ASCII bytes; a Suite is   *)
(* the SuiteConfig a RawSuite wraps.                                       *)
(***************************************************************************)
\* the zero value of SuiteConfig
ZeroSuiteConfig ==
    [Raw |-> <<>>, Hash |-> SHA1, Digits |-> 0, Challenge |-> ChallengeNone,
     IncludeCounter |-> FALSE, IncludeChallenge |-> FALSE, IncludePassword |-> FALSE,
     IncludeSession |-> FALSE, IncludeTimestamp |-> FALSE,
     PasswordHash |-> PasswordNone, TimeStep |-> 0]

\* one entry of the knownSuites literal: the key and the fields it sets
KnownSuite(raw, hash, digits, challenge, c, q, p, s, t, passwordHash, timeStep) ==
    [key |-> raw,
     cfg |-> [Raw |-> <<>>, Hash |-> hash, Digits |-> digits, Challenge |-> challenge,
              IncludeCounter |-> c, IncludeChallenge |-> q, IncludePassword |-> p,
              IncludeSession |-> s, IncludeTimestamp |-> t,
              PasswordHash |-> passwordHash, TimeStep |-> timeStep]]

knownSuiteEntries == {
    \* "OCRA-1:HOTP-SHA1-6:QN08"
    KnownSuite(<<79, 67, 82, 65, 45, 49, 58, 72, 79, 84, 80, 45, 83, 72, 65, 49, 45, 54, 58, 81, 78, 48, 56>>,
               SHA1, 6, ChallengeNumeric08, FALSE, TRUE, FALSE, FALSE, FALSE, PasswordNone, 0),
    \* "OCRA-1:HOTP-SHA1-6:QA08"
    KnownSuite(<<79, 67, 82, 65, 45, 49, 58, 72, 79, 84, 80, 45, 83, 72, 65, 49, 45, 54, 58, 81, 65, 48, 56>>,
               SHA1, 6, ChallengeAlpha08, FALSE, TRUE, FALSE, FALSE, FALSE, PasswordNone, 0),
    \* "OCRA-1:HOTP-SHA1-6:QH08"
    KnownSuite(<<79, 67, 82, 65, 45, 49, 58, 72, 79, 84, 80, 45, 83, 72, 65, 49, 45, 54, 58, 81, 72, 48, 56>>,
               SHA1, 6, ChallengeHex08, FALSE, TRUE, FALSE, FALSE, FALSE, PasswordNone, 0),
    \* "OCRA-1:HOTP-SHA1-8:QN10"
    KnownSuite(<<79, 67, 82, 65, 45, 49, 58, 72, 79, 84, 80, 45, 83, 72, 65, 49, 45, 56, 58, 81, 78, 49, 48>>,
               SHA1, 8, ChallengeNumeric10, FALSE, TRUE, FALSE, FALSE, FALSE, PasswordNone, 0),
    \* "OCRA-1:HOTP-SHA1-8:QA10"
    KnownSuite(<<79, 67, 82, 65, 45, 49, 58, 72, 79, 84, 80, 45, 83, 72, 65, 49, 45, 56, 58, 81, 65, 49, 48>>,
               SHA1, 8, ChallengeAlpha10, FALSE, TRUE, FALSE, FALSE, FALSE, PasswordNone, 0),
    \* "OCRA-1:HOTP-SHA1-8:QH10"
    KnownSuite(<<79, 67, 82, 65, 45, 49, 58, 72, 79, 84, 80, 45, 83, 72, 65, 49, 45, 56, 58, 81, 72, 49, 48>>,
               SHA1, 8, ChallengeHex10, FALSE, TRUE, FALSE, FALSE, FALSE, PasswordNone, 0),
    \* "OCRA-1:HOTP-SHA256-6:QN08"
    KnownSuite(<<79, 67, 82, 65, 45, 49, 58, 72, 79, 84, 80, 45, 83, 72, 65, 50, 53, 54, 45, 54, 58, 81, 78, 48, 56>>,
               SHA256, 6, ChallengeNumeric08, FALSE, TRUE, FALSE, FALSE, FALSE, PasswordNone, 0),
    \* "OCRA-1:HOTP-SHA256-6:QA08"
    KnownSuite(<<79, 67, 82, 65, 45, 49, 58, 72, 79, 84, 80, 45, 83, 72, 65, 50, 53, 54, 45, 54, 58, 81, 65, 48, 56>>,
               SHA256, 6, ChallengeAlpha08, FALSE, TRUE, FALSE, FALSE, FALSE, PasswordNone, 0),
    \* "OCRA-1:HOTP-SHA256-6:QH08"
    KnownSuite(<<79, 67, 82, 65, 45, 49, 58, 72, 79, 84, 80, 45, 83, 72, 65, 50, 53, 54, 45, 54, 58, 81, 72, 48, 56>>,
               SHA256, 6, ChallengeHex08, FALSE, TRUE, FALSE, FALSE, FALSE, PasswordNone, 0),
    \* "OCRA-1:HOTP-SHA256-8:QN10"
    KnownSuite(<<79, 67, 82, 65, 45, 49, 58, 72, 79, 84, 80, 45, 83, 72, 65, 50, 53, 54, 45, 56, 58, 81, 78, 49, 48>>,
               SHA256, 8, ChallengeNumeric10, FALSE, TRUE, FALSE, FALSE, FALSE, PasswordNone, 0),
    \* "OCRA-1:HOTP-SHA256-8:QA10"
    KnownSuite(<<79, 67, 82, 65, 45, 49, 58, 72, 79, 84, 80, 45, 83, 72, 65, 50, 53, 54, 45, 56, 58, 81, 65, 49, 48>>,
               SHA256, 8, ChallengeAlpha10, FALSE, TRUE, FALSE, FALSE, FALSE, PasswordNone, 0),
    \* "OCRA-1:HOTP-SHA256-8:QH10"
    KnownSuite(<<79, 67, 82, 65, 45, 49, 58, 72, 79, 84, 80, 45, 83, 72, 65, 50, 53, 54, 45, 56, 58, 81, 72, 49, 48>>,
               SHA256, 8, ChallengeHex10, FALSE, TRUE, FALSE, FALSE, FALSE, PasswordNone, 0),
    \* "OCRA-1:HOTP-SHA512-6:QN08"
    KnownSuite(<<79, 67, 82, 65, 45, 49, 58, 72, 79, 84, 80, 45, 83, 72, 65, 53, 49, 50, 45, 54, 58, 81, 78, 48, 56>>,
               SHA512, 6, ChallengeNumeric08, FALSE, TRUE, FALSE, FALSE, FALSE, PasswordNone, 0),
    \* "OCRA-1:HOTP-SHA512-6:QA08"
    KnownSuite(<<79, 67, 82, 65, 45, 49, 58, 72, 79, 84, 80, 45, 83, 72, 65, 53, 49, 50, 45, 54, 58, 81, 65, 48, 56>>,
               SHA512, 6, ChallengeAlpha08, FALSE, TRUE, FALSE, FALSE, FALSE, PasswordNone, 0),
    \* "OCRA-1:HOTP-SHA512-6:QH08"
    KnownSuite(<<79, 67, 82, 65, 45, 49, 58, 72, 79, 84, 80, 45, 83, 72, 65, 53, 49, 50, 45, 54, 58, 81, 72, 48, 56>>,
               SHA512, 6, ChallengeHex08, FALSE, TRUE, FALSE, FALSE, FALSE, PasswordNone, 0),
    \* "OCRA-1:HOTP-SHA512-8:QN10"
    KnownSuite(<<79, 67, 82, 65, 45, 49, 58, 72, 79, 84, 80, 45, 83, 72, 65, 53, 49, 50, 45, 56, 58, 81, 78, 49, 48>>,
               SHA512, 8, ChallengeNumeric10, FALSE, TRUE, FALSE, FALSE, FALSE, PasswordNone, 0),
    \* "OCRA-1:HOTP-SHA512-8:QA10"
    KnownSuite(<<79, 67, 82, 65, 45, 49, 58, 72, 79, 84, 80, 45, 83, 72, 65, 53, 49, 50, 45, 56, 58, 81, 65, 49, 48>>,
               SHA512, 8, ChallengeAlpha10, FALSE, TRUE, FALSE, FALSE, FALSE, PasswordNone, 0),
    \* "OCRA-1:HOTP-SHA512-8:QH10"
    KnownSuite(<<79, 67, 82, 65, 45, 49, 58, 72, 79, 84, 80, 45, 83, 72, 65, 53, 49, 50, 45, 56, 58, 81, 72, 49, 48>>,
               SHA512, 8, ChallengeHex10, FALSE, TRUE, FALSE, FALSE, FALSE, PasswordNone, 0),
    \* "OCRA-1:HOTP-SHA1-6:C-QN08"
    KnownSuite(<<79, 67, 82, 65, 45, 49, 58, 72, 79, 84, 80, 45, 83, 72, 65, 49, 45, 54, 58, 67, 45, 81, 78, 48, 56>>,
               SHA1, 6, ChallengeNumeric08, TRUE, TRUE, FALSE, FALSE, FALSE, PasswordNone, 0),
    \* "OCRA-1:HOTP-SHA1-8:C-QA10"
    KnownSuite(<<79, 67, 82, 65, 45, 49, 58, 72, 79, 84, 80, 45, 83, 72, 65, 49, 45, 56, 58, 67, 45, 81, 65, 49, 48>>,
               SHA1, 8, ChallengeAlpha10, TRUE, TRUE, FALSE, FALSE, FALSE, PasswordNone, 0),
    \* "OCRA-1:HOTP-SHA256-6:C-QN08"
    KnownSuite(<<79, 67, 82, 65, 45, 49, 58, 72, 79, 84, 80, 45, 83, 72, 65, 50, 53, 54, 45, 54, 58, 67, 45, 81, 78, 48, 56>>,
               SHA256, 6, ChallengeNumeric08, TRUE, TRUE, FALSE, FALSE, FALSE, PasswordNone, 0),
    \* "OCRA-1:HOTP-SHA256-8:C-QA10"
    KnownSuite(<<79, 67, 82, 65, 45, 49, 58, 72, 79, 84, 80, 45, 83, 72, 65, 50, 53, 54, 45, 56, 58, 67, 45, 81, 65, 49, 48>>,
               SHA256, 8, ChallengeAlpha10, TRUE, TRUE, FALSE, FALSE, FALSE, PasswordNone, 0),
    \* "OCRA-1:HOTP-SHA512-6:C-QH08"
    KnownSuite(<<79, 67, 82, 65, 45, 49, 58, 72, 79, 84, 80, 45, 83, 72, 65, 53, 49, 50, 45, 54, 58, 67, 45, 81, 72, 48, 56>>,
               SHA512, 6, ChallengeHex08, TRUE, TRUE, FALSE, FALSE, FALSE, PasswordNone, 0),
    \* "OCRA-1:HOTP-SHA512-8:C-QH10"
    KnownSuite(<<79, 67, 82, 65, 45, 49, 58, 72, 79, 84, 80, 45, 83, 72, 65, 53, 49, 50, 45, 56, 58, 67, 45, 81, 72, 49, 48>>,
               SHA512, 8, ChallengeHex10, TRUE, TRUE, FALSE, FALSE, FALSE, PasswordNone, 0),
    \* "OCRA-1:HOTP-SHA1-6:QN08-PSHA1"
    KnownSuite(<<79, 67, 82, 65, 45, 49, 58, 72, 79, 84, 80, 45, 83, 72, 65, 49, 45, 54, 58, 81, 78, 48, 56, 45, 80, 83, 72, 65, 49>>,
               SHA1, 6, ChallengeNumeric08, FALSE, TRUE, TRUE, FALSE, FALSE, PasswordSHA1, 0),
    \* "OCRA-1:HOTP-SHA1-8:QA10-PSHA1"
    KnownSuite(<<79, 67, 82, 65, 45, 49, 58, 72, 79, 84, 80, 45, 83, 72, 65, 49, 45, 56, 58, 81, 65, 49, 48, 45, 80, 83, 72, 65, 49>>,
               SHA1, 8, ChallengeAlpha10, FALSE, TRUE, TRUE, FALSE, FALSE, PasswordSHA1, 0),
    \* "OCRA-1:HOTP-SHA256-6:QN08-PSHA256"
    KnownSuite(<<79, 67, 82, 65, 45, 49, 58, 72, 79, 84, 80, 45, 83, 72, 65, 50, 53, 54, 45, 54, 58, 81, 78, 48, 56, 45, 80, 83, 72, 65, 50, 53, 54>>,
               SHA256, 6, ChallengeNumeric08, FALSE, TRUE, TRUE, FALSE, FALSE, PasswordSHA256, 0),
    \* "OCRA-1:HOTP-SHA256-8:QA10-PSHA256"
    KnownSuite(<<79, 67, 82, 65, 45, 49, 58, 72, 79, 84, 80, 45, 83, 72, 65, 50, 53, 54, 45, 56, 58, 81, 65, 49, 48, 45, 80, 83, 72, 65, 50, 53, 54>>,
               SHA256, 8, ChallengeAlpha10, FALSE, TRUE, TRUE, FALSE, FALSE, PasswordSHA256, 0),
    \* "OCRA-1:HOTP-SHA512-6:QH08-PSHA512"
    KnownSuite(<<79, 67, 82, 65, 45, 49, 58, 72, 79, 84, 80, 45, 83, 72, 65, 53, 49, 50, 45, 54, 58, 81, 72, 48, 56, 45, 80, 83, 72, 65, 53, 49, 50>>,
               SHA512, 6, ChallengeHex08, FALSE, TRUE, TRUE, FALSE, FALSE, PasswordSHA512, 0),
    \* "OCRA-1:HOTP-SHA512-8:QH10-PSHA512"
    KnownSuite(<<79, 67, 82, 65, 45, 49, 58, 72, 79, 84, 80, 45, 83, 72, 65, 53, 49, 50, 45, 56, 58, 81, 72, 49, 48, 45, 80, 83, 72, 65, 53, 49, 50>>,
               SHA512, 8, ChallengeHex10, FALSE, TRUE, TRUE, FALSE, FALSE, PasswordSHA512, 0),
    \* "OCRA-1:HOTP-SHA1-6:C-QN08-PSHA1-S-T1"
    KnownSuite(<<79, 67, 82, 65, 45, 49, 58, 72, 79, 84, 80, 45, 83, 72, 65, 49, 45, 54, 58, 67, 45, 81, 78, 48, 56, 45, 80, 83, 72, 65, 49, 45, 83, 45, 84, 49>>,
               SHA1, 6, ChallengeNumeric08, TRUE, TRUE, TRUE, TRUE, TRUE, PasswordSHA1, 1),
    \* "OCRA-1:HOTP-SHA1-8:C-QA10-PSHA1-S-T1"
    KnownSuite(<<79, 67, 82, 65, 45, 49, 58, 72, 79, 84, 80, 45, 83, 72, 65, 49, 45, 56, 58, 67, 45, 81, 65, 49, 48, 45, 80, 83, 72, 65, 49, 45, 83, 45, 84, 49>>,
               SHA1, 8, ChallengeAlpha10, TRUE, TRUE, TRUE, TRUE, TRUE, PasswordSHA1, 1),
    \* "OCRA-1:HOTP-SHA256-6:C-QN08-PSHA256-S-T1"
    KnownSuite(<<79, 67, 82, 65, 45, 49, 58, 72, 79, 84, 80, 45, 83, 72, 65, 50, 53, 54, 45, 54, 58, 67, 45, 81, 78, 48, 56, 45, 80, 83, 72, 65, 50, 53, 54, 45, 83, 45, 84, 49>>,
               SHA256, 6, ChallengeNumeric08, TRUE, TRUE, TRUE, TRUE, TRUE, PasswordSHA256, 1),
    \* "OCRA-1:HOTP-SHA256-8:C-QA10-PSHA256-S-T1"
    KnownSuite(<<79, 67, 82, 65, 45, 49, 58, 72, 79, 84, 80, 45, 83, 72, 65, 50, 53, 54, 45, 56, 58, 67, 45, 81, 65, 49, 48, 45, 80, 83, 72, 65, 50, 53, 54, 45, 83, 45, 84, 49>>,
               SHA256, 8, ChallengeAlpha10, TRUE, TRUE, TRUE, TRUE, TRUE, PasswordSHA256, 1),
    \* "OCRA-1:HOTP-SHA512-6:C-QH08-PSHA512-S-T1"
    KnownSuite(<<79, 67, 82, 65, 45, 49, 58, 72, 79, 84, 80, 45, 83, 72, 65, 53, 49, 50, 45, 54, 58, 67, 45, 81, 72, 48, 56, 45, 80, 83, 72, 65, 53, 49, 50, 45, 83, 45, 84, 49>>,
               SHA512, 6, ChallengeHex08, TRUE, TRUE, TRUE, TRUE, TRUE, PasswordSHA512, 1),
    \* "OCRA-1:HOTP-SHA512-8:C-QH10-PSHA512-S-T1"
    KnownSuite(<<79, 67, 82, 65, 45, 49, 58, 72, 79, 84, 80, 45, 83, 72, 65, 53, 49, 50, 45, 56, 58, 67, 45, 81, 72, 49, 48, 45, 80, 83, 72, 65, 53, 49, 50, 45, 83, 45, 84, 49>>,
               SHA512, 8, ChallengeHex10, TRUE, TRUE, TRUE, TRUE, TRUE, PasswordSHA512, 1),
    \* "OCRA-1:HOTP-SHA1-6:QN08-S-T1"
    KnownSuite(<<79, 67, 82, 65, 45, 49, 58, 72, 79, 84, 80, 45, 83, 72, 65, 49, 45, 54, 58, 81, 78, 48, 56, 45, 83, 45, 84, 49>>,
               SHA1, 6, ChallengeNumeric08, FALSE, TRUE, FALSE, TRUE, TRUE, PasswordNone, 1),
    \* "OCRA-1:HOTP-SHA1-8:QA10-S-T1"
    KnownSuite(<<79, 67, 82, 65, 45, 49, 58, 72, 79, 84, 80, 45, 83, 72, 65, 49, 45, 56, 58, 81, 65, 49, 48, 45, 83, 45, 84, 49>>,
               SHA1, 8, ChallengeAlpha10, FALSE, TRUE, FALSE, TRUE, TRUE, PasswordNone, 1),
    \* "OCRA-1:HOTP-SHA256-6:QN08-S-T1"
    KnownSuite(<<79, 67, 82, 65, 45, 49, 58, 72, 79, 84, 80, 45, 83, 72, 65, 50, 53, 54, 45, 54, 58, 81, 78, 48, 56, 45, 83, 45, 84, 49>>,
               SHA256, 6, ChallengeNumeric08, FALSE, TRUE, FALSE, TRUE, TRUE, PasswordNone, 1),
    \* "OCRA-1:HOTP-SHA256-8:QA10-S-T1"
    KnownSuite(<<79, 67, 82, 65, 45, 49, 58, 72, 79, 84, 80, 45, 83, 72, 65, 50, 53, 54, 45, 56, 58, 81, 65, 49, 48, 45, 83, 45, 84, 49>>,
               SHA256, 8, ChallengeAlpha10, FALSE, TRUE, FALSE, TRUE, TRUE, PasswordNone, 1),
    \* "OCRA-1:HOTP-SHA512-6:QH08-S-T1"
    KnownSuite(<<79, 67, 82, 65, 45, 49, 58, 72, 79, 84, 80, 45, 83, 72, 65, 53, 49, 50, 45, 54, 58, 81, 72, 48, 56, 45, 83, 45, 84, 49>>,
               SHA512, 6, ChallengeHex08, FALSE, TRUE, FALSE, TRUE, TRUE, PasswordNone, 1),
    \* "OCRA-1:HOTP-SHA512-8:QH10-S-T1"
    KnownSuite(<<79, 67, 82, 65, 45, 49, 58, 72, 79, 84, 80, 45, 83, 72, 65, 53, 49, 50, 45, 56, 58, 81, 72, 49, 48, 45, 83, 45, 84, 49>>,
               SHA512, 8, ChallengeHex10, FALSE, TRUE, FALSE, TRUE, TRUE, PasswordNone, 1),
    \* "OCRA-1:HOTP-SHA1-6:C"
    KnownSuite(<<79, 67, 82, 65, 45, 49, 58, 72, 79, 84, 80, 45, 83, 72, 65, 49, 45, 54, 58, 67>>,
               SHA1, 6, ChallengeNone, TRUE, FALSE, FALSE, FALSE, FALSE, PasswordNone, 0),
    \* "OCRA-1:HOTP-SHA256-6:C"
    KnownSuite(<<79, 67, 82, 65, 45, 49, 58, 72, 79, 84, 80, 45, 83, 72, 65, 50, 53, 54, 45, 54, 58, 67>>,
               SHA256, 6, ChallengeNone, TRUE, FALSE, FALSE, FALSE, FALSE, PasswordNone, 0),
    \* "OCRA-1:HOTP-SHA512-6:C"
    KnownSuite(<<79, 67, 82, 65, 45, 49, 58, 72, 79, 84, 80, 45, 83, 72, 65, 53, 49, 50, 45, 54, 58, 67>>,
               SHA512, 6, ChallengeNone, TRUE, FALSE, FALSE, FALSE, FALSE, PasswordNone, 0)
    }

\* the keys of knownSuites
KnownRaws == {e.key : e \in knownSuiteEntries}

\* knownSuites[raw], for a key raw
knownSuites(raw) == (CHOOSE e \in knownSuiteEntries : e.key = raw).cfg

\* strings.Split for a separator of one byte
RECURSIVE Split(_, _)
Split(s, sep) ==
    IF \E i \in 1..Len(s) : s[i] = sep
    THEN LET i == CHOOSE k \in 1..Len(s) : s[k] = sep /\ \A j \in 1..(k - 1) : s[j] # sep
         IN  <<SubSeq(s, 1, i - 1)>> \o Split(SubSeq(s, i + 1, Len(s)), sep)
    ELSE <<s>>

HasPrefix(s, prefix) == Len(s) >= Len(prefix) /\ SubSeq(s, 1, Len(prefix)) = prefix

\* strings.ToUpper on ASCII bytes
ToUpperBytes(s) == SubSeq([i \in 1..Len(s) |-> IF s[i] \in 97..122 THEN s[i] - 32 ELSE s[i]],
                          1, Len(s))

RECURSIVE DecimalOf(_)
\* the number a string of digits writes
DecimalOf(s) ==
    IF s = <<>> THEN 0 ELSE DecimalOf(SubSeq(s, 1, Len(s) - 1)) * 10 + (s[Len(s)] - 48)

\* strconv.Atoi, for strings short enough not to overflow: an optional sign,
\* then one or more digits
Atoi(s) ==
    LET signed == s # <<>> /\ s[1] \in {43, 45}
        body   == IF signed THEN Tail(s) ELSE s
    IN  IF body = <<>> \/ \E i \in 1..Len(body) : body[i] \notin 48..57
        THEN [ok |-> FALSE, val |-> 0]
        ELSE [ok |-> TRUE,
              val |-> IF signed /\ s[1] = 45 THEN -DecimalOf(body) ELSE DecimalOf(body)]

\* parseTimeGranularity: "1M" => 60, "2H" => 7200, "30S" => 30
parseTimeGranularity(g) ==
    IF Len(g) < 2 THEN [err |-> "too short time spec", val |-> 0]
    ELSE LET val  == Atoi(SubSeq(g, 1, Len(g) - 1))
             unit == g[Len(g)]
         IN  IF ~val.ok THEN [err |-> "strconv.Atoi", val |-> 0]
             ELSE CASE unit = 83 -> [err |-> "nil", val |-> val.val]
                    [] unit = 77 -> [err |-> "nil", val |-> val.val * 60]
                    [] unit = 72 -> [err |-> "nil", val |-> val.val * 3600]
                    [] OTHER -> [err |-> "unknown time unit", val |-> 0]

\* one token of parseDataInputTokens: the error and the configuration after it
parseDataInputToken(cfg, tok) ==
    LET tokU == ToUpperBytes(tok)
    IN  IF tokU = <<67>> THEN [err |-> "nil", cfg |-> [cfg EXCEPT !.IncludeCounter = TRUE]]
        ELSE IF HasPrefix(tokU, <<81, 78>>)
        THEN IF Len(tokU) = 4
             THEN IF SubSeq(tokU, 3, 4) = <<48, 56>>
                  THEN [err |-> "nil",
                        cfg |-> [cfg EXCEPT !.IncludeChallenge = TRUE,
                                            !.Challenge = ChallengeNumeric08]]
                  ELSE IF SubSeq(tokU, 3, 4) = <<49, 48>>
                  THEN [err |-> "nil",
                        cfg |-> [cfg EXCEPT !.IncludeChallenge = TRUE,
                                            !.Challenge = ChallengeNumeric10]]
                  ELSE [err |-> "unsupported numeric challenge spec",
                        cfg |-> [cfg EXCEPT !.IncludeChallenge = TRUE]]
             ELSE [err |-> "nil", cfg |-> [cfg EXCEPT !.IncludeChallenge = TRUE]]
        ELSE IF HasPrefix(tokU, <<81, 65>>) \/ HasPrefix(tokU, <<81, 72>>)
        THEN [err |-> "nil", cfg |-> [cfg EXCEPT !.IncludeChallenge = TRUE]]
        ELSE IF HasPrefix(tokU, <<80, 83, 72, 65>>)
        THEN CASE tokU = <<80, 83, 72, 65, 49>> ->
                    [err |-> "nil", cfg |-> [cfg EXCEPT !.IncludePassword = TRUE,
                                                        !.PasswordHash = PasswordSHA1]]
               [] tokU = <<80, 83, 72, 65, 50, 53, 54>> ->
                    [err |-> "nil", cfg |-> [cfg EXCEPT !.IncludePassword = TRUE,
                                                        !.PasswordHash = PasswordSHA256]]
               [] tokU = <<80, 83, 72, 65, 53, 49, 50>> ->
                    [err |-> "nil", cfg |-> [cfg EXCEPT !.IncludePassword = TRUE,
                                                        !.PasswordHash = PasswordSHA512]]
               [] OTHER ->
                    [err |-> "unknown password hash type",
                     cfg |-> [cfg EXCEPT !.IncludePassword = TRUE]]
        ELSE IF HasPrefix(tokU, <<84>>)
        THEN LET secs == parseTimeGranularity(Tail(tok))
             IN  IF secs.err # "nil"
                 THEN [err |-> "invalid time spec",
                       cfg |-> [cfg EXCEPT !.IncludeTimestamp = TRUE]]
                 ELSE [err |-> "nil", cfg |-> [cfg EXCEPT !.IncludeTimestamp = TRUE,
                                                          !.TimeStep = secs.val]]
        ELSE IF HasPrefix(tokU, <<83>>)
        THEN [err |-> "nil", cfg |-> [cfg EXCEPT !.IncludeSession = TRUE]]
        ELSE [err |-> "unknown data input token", cfg |-> cfg]

RECURSIVE parseDataInputLoop(_, _)
\* the loop of parseDataInputTokens over the tokens left
parseDataInputLoop(cfg, toks) ==
    IF toks = <<>> THEN [err |-> "nil", cfg |-> cfg]
    ELSE LET r == parseDataInputToken(cfg, Head(toks))
         IN  IF r.err # "nil" THEN r ELSE parseDataInputLoop(r.cfg, Tail(toks))

parseDataInputTokens(cfg, input) == parseDataInputLoop(cfg, Split(input, 45))

\* parseCryptoFunction: the "HOTP-SHA1-6" part
parseCryptoFunction(raw, crypto) ==
    IF ~HasPrefix(ToUpperBytes(crypto), <<72, 79, 84, 80, 45, 83, 72, 65>>)
    THEN [err |-> "unknown or unsupported crypto", cfg |-> ZeroSuiteConfig]
    ELSE LET parts == Split(SubSeq(crypto, 6, Len(crypto)), 45)
         IN  IF Len(parts) # 2
             THEN [err |-> "invalid crypto format", cfg |-> ZeroSuiteConfig]
             ELSE LET hashPart == ToUpperBytes(parts[1])
                      dig      == Atoi(parts[2])
                  IN  IF hashPart \notin {<<83, 72, 65, 49>>, <<83, 72, 65, 50, 53, 54>>,
                                          <<83, 72, 65, 53, 49, 50>>}
                      THEN [err |-> "unsupported hash", cfg |-> ZeroSuiteConfig]
                      ELSE IF ~dig.ok
                      THEN [err |-> "invalid digit spec", cfg |-> ZeroSuiteConfig]
                      ELSE [err |-> "nil",
                            cfg |-> [ZeroSuiteConfig EXCEPT
                                        !.Hash = CASE hashPart = <<83, 72, 65, 49>> -> SHA1
                                                   [] hashPart = <<83, 72, 65, 50, 53, 54>> -> SHA256
                                                   [] OTHER -> SHA512,
                                        !.Digits = dig.val]]

\* parseRawSuite: the error and the configuration
parseRawSuite(raw) ==
    LET parts == Split(raw, 58)
    IN  IF Len(parts) < 3 THEN [err |-> "invalid OCRA suite format", cfg |-> ZeroSuiteConfig]
        ELSE IF ~HasPrefix(parts[1], <<79, 67, 82, 65, 45, 49>>)
        THEN [err |-> "unsupported OCRA version", cfg |-> ZeroSuiteConfig]
        ELSE LET crypto == parseCryptoFunction(raw, parts[2])
             IN  IF crypto.err # "nil" THEN crypto
                 ELSE LET data == parseDataInputTokens(crypto.cfg, parts[3])
                      IN  IF data.err # "nil" THEN [err |-> data.err, cfg |-> ZeroSuiteConfig]
                          ELSE LET cfg == [data.cfg EXCEPT !.Raw = raw]
                               IN  IF SuiteConfigValidate(cfg) # "nil"
                                   THEN [err |-> SuiteConfigValidate(cfg),
                                         cfg |-> ZeroSuiteConfig]
                                   ELSE [err |-> "nil", cfg |-> cfg]

\* a NewRawSuite that hands out the registry entry as it is stored
NewRawSuiteStored(raw) ==
    IF raw \in KnownRaws
    THEN LET suiteCfg == knownSuites(raw)
         IN  IF SuiteConfigValidate(suiteCfg) # "nil"
             THEN Fail(<<ZeroSuiteConfig>>, SuiteConfigValidate(suiteCfg))
             ELSE Ok(<<suiteCfg>>)
    ELSE LET parsed == parseRawSuite(raw)
         IN  IF parsed.err # "nil" THEN Fail(<<ZeroSuiteConfig>>, parsed.err)
             ELSE Ok(<<parsed.cfg>>)

\* NewRawSuite: (Suite, error), the suite being <<cfg>>; RawSuite{} with an error
NewRawSuite(raw) ==
    IF raw \in KnownRaws
    THEN LET suiteCfg == [knownSuites(raw) EXCEPT !.Raw = raw]
         IN  IF SuiteConfigValidate(suiteCfg) # "nil"
             THEN Fail(<<ZeroSuiteConfig>>, SuiteConfigValidate(suiteCfg))
             ELSE Ok(<<suiteCfg>>)
    ELSE LET parsed == parseRawSuite(raw)
         IN  IF parsed.err # "nil" THEN Fail(<<ZeroSuiteConfig>>, parsed.err)
             ELSE Ok(<<parsed.cfg>>)

\* MustRawSuite: the suite, or a panic with the error
MustRawSuite(raw) ==
    LET s == NewRawSuite(raw)
    IN  IF s.err # "nil" THEN Panic(s.err) ELSE s

\* NewSuite: (Suite, error), a nil Suite being <<>>
NewSuite(cfg) ==
    IF SuiteConfigValidate(cfg) # "nil" THEN Fail(<<>>, SuiteConfigValidate(cfg))
    ELSE Ok(<<cfg>>)

\* RawSuite.String and RawSuite.Config of a suite <<cfg>>
SuiteString(suite) == suite[1].Raw

SuiteConfigOf(suite) == suite[1]

(***************************************************************************)
(* The callers' inputs                                                     *)
(***************************************************************************)
\* base32 of the RFC 4226 secret "12345678901234567890"
RFCSecret == <<"G","E","Z","D","G","N","B","V","G","Y","3","T","Q","O","J","Q",
               "G","E","Z","D","G","N","B","V","G","Y","3","T","Q","O","J","Q">>

\* a lower-case secret with surrounding blanks and no padding ("foob")
PlainSecret == <<" ","m","z","x","w","6","y","q"," ">>

\* not base32
BadSecret == <<"1","2","3","!","@","#">>

Secrets == {PlainSecret, BadSecret}

\* 2^63 - 1, 2^63 and 2^64 - 1
MaxInt64 == <<32767, 65535, 65535, 65535>>
MinInt64 == <<32768, 0, 0, 0>>
MaxUint64 == <<65535, 65535, 65535, 65535>>

Counters == {U64(n) : n \in 0..MaxSmallCounter} \cup {MaxInt64, MinInt64, MaxUint64}

DigitsSet == {0, SixDigits, EightDigits, NineDigits, TenDigits} \cup (Len(mod10)..MaxDigits)

\* the three supported algorithms and an unsupported one
Algorithms == {SHA1, SHA256, SHA512, hmacPoolsLen}

Skews == {0, 1, SkewCap} \cup ((SkewCap + 1)..MaxSkew)

Periods == {0, 1, DefaultPeriod}

Times == (0..MaxTime) \cup {DefaultPeriod - 1, DefaultPeriod}

\* the keyed hashes of the calls
MixWorlds == {MixWorld(k) : k \in 0..MaxWorld}

Params == [Digits : DigitsSet, Period : Periods, Skew : Skews, Algorithm : Algorithms]

\* HOTP does not read Period
HOTPParams == {<<>>} \cup {<<p>> : p \in {q \in Params : q.Period = 0}}

TOTPParams == {<<>>} \cup {<<p>> : p \in Params}

\* codes a caller may submit that no derivation produced: the empty code,
\* "12345", and the code of digits '0' of the configured length
ForeignCodes(param, default) ==
    LET p == IF param = <<>> THEN default ELSE param[1]
    IN  {<<>>, <<49, 50, 51, 52, 53>>, Repeat(48, p.Digits)}

\* the window positions at which a submitted code may have been issued
Offsets(skew) == {-(skew + 1), -skew, -1, 0, 1, skew, skew + 1}

\* counter + j for an offset j, when that is a uint64
Shifted(counter, j) ==
    IF j < 0
    THEN IF U64Below(counter, -j) THEN <<>> ELSE <<U64Sub(counter, -j)>>
    ELSE IF U64Below(U64Add(counter, j), j) THEN <<>> ELSE <<U64Add(counter, j)>>

\* the codes issued with a key (a decoded secret) at a set of counters
Issued(world, key, at, p) ==
    IF ~key.ok THEN {}
    ELSE LET gen == {deriveRFC4226(world, key.bytes, c, p.Digits, p.Algorithm) : c \in at}
         IN  {g.val : g \in {h \in gen : h.panic = "none" /\ h.err = "nil"}}

\* the codes GenerateHOTP issues for the counters around counter
IssuedHOTP(world, secret, counter, param) ==
    LET p == IF param = <<>> THEN DefaultHOTPParam ELSE param[1]
    IN  Issued(world, DecodeSecret(secret),
               UNION {Range(Shifted(counter, j)) : j \in Offsets(p.Skew)}, p)

\* the codes GenerateTOTP issues at the tried times
IssuedTOTP(world, secret, param) ==
    LET p == IF param = <<>> THEN DefaultTOTPParam ELSE param[1]
    IN  IF p.Period = 0 THEN {}
        ELSE Issued(world, DecodeSecret(secret),
                    {TimeCounterFunc(t, p.Period) : t \in Times}, p)

\* the keyed hashes whose digests carry chosen 31-bit values: 0, 1 under a set
\* top bit, 999999, 10^6, 10^9 - 1, 10^9, 1234567890, the RFC 4226 example
\* 0x50ef7f19, and 2^31 - 1 with and without the top bit
FixedBins == {<<0, 0, 0, 0>>, <<128, 0, 0, 1>>, <<0, 15, 66, 63>>, <<0, 15, 66, 64>>,
              <<59, 154, 201, 255>>, <<59, 154, 202, 0>>, <<73, 150, 2, 210>>,
              <<80, 239, 127, 25>>, <<127, 255, 255, 255>>, <<255, 255, 255, 255>>}

FixedWorlds == {FixedWorld(fill, off, bin) : fill \in {0, 165}, off \in {0, 7, maskOffset},
                                             bin \in FixedBins}

\* the decoded RFC 4226 secret, "12345678901234567890"
RFCKey == <<49, 50, 51, 52, 53, 54, 55, 56, 57, 48, 49, 50, 51, 52, 53, 54, 55, 56, 57, 48>>

\* the digit counts the derivation fuzz test lets through
DeriveDigits == 1..TenDigits

SupportedAlgorithms == {SHA1, SHA256, SHA512}

\* suite digit counts, with one below and one above the accepted 4..10
SuiteDigits == 3..MaxDigits

\* "OCRA-1:HOTP-SHA"
SuitePrefix == <<79, 67, 82, 65, 45, 49, 58, 72, 79, 84, 80, 45, 83, 72, 65>>

\* the suite OCRA-1:HOTP-<hash>-<digits>:QN08 as NewSuite receives it
SuiteFor(hash, digits) ==
    [Raw |-> SuitePrefix
             \o (CASE hash = SHA1 -> <<49>> [] hash = SHA256 -> <<50, 53, 54>>
                    [] OTHER -> <<53, 49, 50>>)
             \o <<45>> \o (IF digits >= 10 THEN <<48 + (digits \div 10)>> ELSE <<>>)
             \o <<48 + (digits % 10), 58, 81, 78, 48, 56>>,
     Hash |-> hash, Digits |-> digits, Challenge |-> ChallengeNumeric08,
     IncludeCounter |-> FALSE, IncludeChallenge |-> TRUE, IncludePassword |-> FALSE,
     IncludeSession |-> FALSE, IncludeTimestamp |-> FALSE,
     PasswordHash |-> PasswordNone, TimeStep |-> 0]

\* the challenge "00000000" and nothing else
ChallengeInput == [Counter |-> <<>>, Challenge |-> Repeat(48, 8), Password |-> <<>>,
                   SessionInfo |-> <<>>, Timestamp |-> <<>>]

\* the codes of RFC 4226 Appendix D for counters 0..9, as ASCII
RFCExpected == <<
    <<55, 53, 53, 50, 50, 52>>, <<50, 56, 55, 48, 56, 50>>, <<51, 53, 57, 49, 53, 50>>,
    <<57, 54, 57, 52, 50, 57>>, <<51, 51, 56, 51, 49, 52>>, <<50, 53, 52, 54, 55, 54>>,
    <<50, 56, 55, 57, 50, 50>>, <<49, 54, 50, 53, 56, 51>>, <<51, 57, 57, 56, 55, 49>>,
    <<53, 50, 48, 52, 56, 57>> >>

(***************************************************************************)
(* The state: the library keeps none between calls, so the state is the    *)
(* call in progress, with its inputs, and what it returned.                *)
(***************************************************************************)
VARIABLES
    hmacWorld,  \* which keyed hash the calls compute
    pc,         \* "idle", or "returned" when a call has returned or panicked
    call,       \* the operation called and its arguments
    ret,        \* the returned value and error, or the panic
    trace,      \* what a validation did: counters tried, derivations, decoding
    pool,       \* rfc4226BufPool and rfc6287BufPool: free buffers, buffer contents
    proc        \* the goroutines that call concurrently: position, call, buffer held

vars == <<hmacWorld, pc, call, ret, trace, pool, proc>>

NoCall == [op |-> "none", secret |-> <<>>, code |-> <<>>, counter |-> U64(0),
           time |-> 0, param |-> <<>>]

NoTrace == Trace(<<>>, 0, FALSE)

\* what a call gave back: the code of a (string, error) result, the verdict of
\* a (bool, error) result
Code(r) == [val |-> r.val, valid |-> FALSE, err |-> r.err, panic |-> r.panic]

Verdict(r) ==
    [val |-> <<>>, valid |-> r.panic = "none" /\ r.val, err |-> r.err, panic |-> r.panic]

NoResult == Code(Ok(<<>>))

\* the goroutines that call at the same time
Goroutines == {"g1", "g2"}

\* the buffers the two pools can hand out: the pool's name and a number.  A
\* pool needs no more buffers than there are calls in flight; when all are
\* allocated, a new one is had after the collector has dropped a free one.
Buffers == {"rfc4226BufPool", "rfc6287BufPool"} \X (1..Cardinality(Goroutines))

\* what the New function of a pool allocates: a zeroed [8]byte, an empty
\* slice of capacity 256
NewBuffer(b) == IF b[1] = "rfc4226BufPool" THEN Repeat(0, 8) ELSE <<>>

\* both pools empty: no buffer allocated
NoPool == [free |-> {}, mem |-> [b \in Buffers |-> NewBuffer(b)]]

\* a goroutine that is not in a call
IdleProc ==
    [pc |-> "idle", op |-> "none", counter |-> U64(0), code |-> <<>>, suite |-> <<>>,
     input |-> <<>>, digits |-> 0, algo |-> SHA1, plan |-> <<>>, buf |-> <<>>,
     msg |-> <<>>, hashed |-> <<>>, ret |-> NoResult]

NoProc == [g \in Goroutines |-> IdleProc]

Init ==
    /\ hmacWorld \in MixWorlds
    /\ pc = "idle"
    /\ call = NoCall
    /\ ret = NoResult
    /\ trace = NoTrace
    /\ pool = NoPool
    /\ proc = NoProc

CallGenerateHOTP ==
    /\ pc = "idle"
    /\ \E secret \in Secrets, counter \in Counters, param \in HOTPParams :
          /\ call' = [op |-> "GenerateHOTP", secret |-> secret, code |-> <<>>,
                      counter |-> counter, time |-> 0, param |-> param]
          /\ ret' = Code(GenerateHOTP(hmacWorld, secret, counter, param))
    /\ trace' = NoTrace
    /\ pc' = "returned"
    /\ UNCHANGED <<hmacWorld, pool, proc>>

CallValidateHOTP ==
    /\ pc = "idle"
    /\ \E secret \in Secrets, counter \in Counters, param \in HOTPParams :
          \E code \in IssuedHOTP(hmacWorld, secret, counter, param) \cup ForeignCodes(param, DefaultHOTPParam) :
             LET r == ValidateHOTP(hmacWorld, secret, code, counter, param)
             IN  /\ call' = [op |-> "ValidateHOTP", secret |-> secret, code |-> code,
                             counter |-> counter, time |-> 0, param |-> param]
                 /\ ret' = Verdict(r)
                 /\ trace' = r.trace
    /\ pc' = "returned"
    /\ UNCHANGED <<hmacWorld, pool, proc>>

CallGenerateTOTP ==
    /\ pc = "idle"
    /\ \E secret \in Secrets, t \in Times, param \in TOTPParams :
          /\ call' = [op |-> "GenerateTOTP", secret |-> secret, code |-> <<>>,
                      counter |-> U64(0), time |-> t, param |-> param]
          /\ ret' = Code(GenerateTOTP(hmacWorld, secret, t, param))
    /\ trace' = NoTrace
    /\ pc' = "returned"
    /\ UNCHANGED <<hmacWorld, pool, proc>>

CallValidateTOTP ==
    /\ pc = "idle"
    /\ \E secret \in Secrets, t \in Times, param \in TOTPParams :
          \E code \in IssuedTOTP(hmacWorld, secret, param) \cup ForeignCodes(param, DefaultTOTPParam) :
             LET r == ValidateTOTP(hmacWorld, secret, code, t, param)
             IN  /\ call' = [op |-> "ValidateTOTP", secret |-> secret, code |-> code,
                             counter |-> U64(0), time |-> t, param |-> param]
                 /\ ret' = Verdict(r)
                 /\ trace' = r.trace
    /\ pc' = "returned"
    /\ UNCHANGED <<hmacWorld, pool, proc>>

\* the caller takes the result; nothing of the call is kept
Return ==
    /\ pc = "returned"
    /\ pc' = "idle"
    /\ call' = NoCall
    /\ ret' = NoResult
    /\ trace' = NoTrace
    /\ UNCHANGED <<hmacWorld, pool, proc>>

Next ==
    \/ CallGenerateHOTP
    \/ CallValidateHOTP
    \/ CallGenerateTOTP
    \/ CallValidateTOTP
    \/ Return

Spec == Init /\ [][Next]_vars

(***************************************************************************)
(* The derivations alone, over keyed hashes with chosen digests            *)
(***************************************************************************)
InitDerive ==
    /\ hmacWorld \in FixedWorlds
    /\ pc = "idle"
    /\ call = NoCall
    /\ ret = NoResult
    /\ trace = NoTrace
    /\ pool = NoPool
    /\ proc = NoProc

CallDeriveRFC4226 ==
    /\ pc = "idle"
    /\ \E counter \in {U64(0), MaxUint64}, digits \in DeriveDigits,
          algo \in SupportedAlgorithms :
          /\ call' = [op |-> "deriveRFC4226", secret |-> RFCKey, code |-> <<>>,
                      counter |-> counter, time |-> 0,
                      param |-> <<[Digits |-> digits, Period |-> 0, Skew |-> 0,
                                   Algorithm |-> algo]>>]
          /\ ret' = Code(deriveRFC4226(hmacWorld, RFCKey, counter, digits, algo))
    /\ trace' = NoTrace
    /\ pc' = "returned"
    /\ UNCHANGED <<hmacWorld, pool, proc>>

GenerateOCRA(world, secret, cfg, in) ==
    LET secretBuf == DecodeSecret(secret)
    IN  IF ~secretBuf.ok THEN Fail(<<>>, "CorruptInputError")
        ELSE deriveRFC6287(world, secretBuf.bytes, cfg, in)

CallGenerateOCRA ==
    /\ pc = "idle"
    /\ \E digits \in SuiteDigits, hash \in SupportedAlgorithms :
          /\ call' = [op |-> "GenerateOCRA", secret |-> RFCSecret, code |-> <<>>,
                      counter |-> U64(0), time |-> 0,
                      param |-> <<[Digits |-> digits, Period |-> 0, Skew |-> 0,
                                   Algorithm |-> hash]>>]
          /\ ret' = Code(GenerateOCRA(hmacWorld, RFCSecret, SuiteFor(hash, digits), ChallengeInput))
    /\ trace' = NoTrace
    /\ pc' = "returned"
    /\ UNCHANGED <<hmacWorld, pool, proc>>

NextDerive ==
    \/ CallDeriveRFC4226
    \/ CallGenerateOCRA
    \/ Return

SpecDerive == InitDerive /\ [][NextDerive]_vars

(***************************************************************************)
(* Suite strings and configurations handed to the OCRA operations          *)
(***************************************************************************)
\* "OCRA-1"
VersionOCRA1 == <<79, 67, 82, 65, 45, 49>>

\* "HOTP-"
CryptoHOTP == <<72, 79, 84, 80, 45>>

\* version:crypto:dataInput
Descriptor(version, crypto, dataInput) == version \o <<58>> \o crypto \o <<58>> \o dataInput

\* the name of a hash in a suite string
HashName(hash) ==
    CASE hash = SHA1 -> <<83, 72, 65, 49>>
      [] hash = SHA256 -> <<83, 72, 65, 50, 53, 54>>
      [] hash = SHA512 -> <<83, 72, 65, 53, 49, 50>>

RECURSIVE Itoa(_)
\* the decimal text of a natural number
Itoa(n) == IF n < 10 THEN <<48 + n>> ELSE Itoa(n \div 10) \o <<48 + (n % 10)>>

\* HOTP-<HASH>-<DIGITS>
CryptoFunction(hash, digits) == CryptoHOTP \o HashName(hash) \o <<45>> \o Itoa(digits)

\* data inputs built from the tokens C, Q<N|A|H><08|10>, PSHA<1|256|512>, S and T<number><S|M|H>
GrammarData == {
    \* "C"
    <<67>>,
    \* "QN08"
    <<81, 78, 48, 56>>,
    \* "QA08"
    <<81, 65, 48, 56>>,
    \* "QH10"
    <<81, 72, 49, 48>>,
    \* "QN10-PSHA1"
    <<81, 78, 49, 48, 45, 80, 83, 72, 65, 49>>,
    \* "C-QN08-PSHA256"
    <<67, 45, 81, 78, 48, 56, 45, 80, 83, 72, 65, 50, 53, 54>>,
    \* "QN08-S"
    <<81, 78, 48, 56, 45, 83>>,
    \* "QN08-T1M"
    <<81, 78, 48, 56, 45, 84, 49, 77>>,
    \* "QN10-T30S"
    <<81, 78, 49, 48, 45, 84, 51, 48, 83>>,
    \* "QH08-T2H"
    <<81, 72, 48, 56, 45, 84, 50, 72>>,
    \* "C-QN10-PSHA512-S-T1M"
    <<67, 45, 81, 78, 49, 48, 45, 80, 83, 72, 65, 53, 49, 50, 45, 83, 45, 84, 49, 77>>
    }

\* descriptors OCRA-1:HOTP-<HASH>-<DIGITS>:<TOKENS> with supported hash and digits
GrammarDigits == {4, 7, 10}

GrammarRaws ==
    {Descriptor(VersionOCRA1, CryptoFunction(hash, digits), data) :
        hash \in SupportedAlgorithms, digits \in GrammarDigits, data \in GrammarData}

\* strings that break the descriptor form in one place each
MalformedRaws == {
    \* "invalid-suite-string"
    <<105, 110, 118, 97, 108, 105, 100, 45, 115, 117, 105, 116, 101, 45, 115, 116, 114, 105, 110, 103>>,
    \* "OCRA-1:HOTP-SHA1-6"
    <<79, 67, 82, 65, 45, 49, 58, 72, 79, 84, 80, 45, 83, 72, 65, 49, 45, 54>>,
    \* "OCRA-1:HOTP-SHA1-6:QN08:extra"
    <<79, 67, 82, 65, 45, 49, 58, 72, 79, 84, 80, 45, 83, 72, 65, 49, 45, 54, 58, 81, 78, 48, 56, 58, 101, 120, 116, 114, 97>>,
    \* "OCRA-1x:HOTP-SHA1-6:QN08"
    <<79, 67, 82, 65, 45, 49, 120, 58, 72, 79, 84, 80, 45, 83, 72, 65, 49, 45, 54, 58, 81, 78, 48, 56>>,
    \* "OCRA-2:HOTP-SHA1-6:QN08"
    <<79, 67, 82, 65, 45, 50, 58, 72, 79, 84, 80, 45, 83, 72, 65, 49, 45, 54, 58, 81, 78, 48, 56>>,
    \* "ocra-1:HOTP-SHA1-6:QN08"
    <<111, 99, 114, 97, 45, 49, 58, 72, 79, 84, 80, 45, 83, 72, 65, 49, 45, 54, 58, 81, 78, 48, 56>>,
    \* "OCRA-1:HOTP-MD5-6:QN08"
    <<79, 67, 82, 65, 45, 49, 58, 72, 79, 84, 80, 45, 77, 68, 53, 45, 54, 58, 81, 78, 48, 56>>,
    \* "OCRA-1:HOTP-SHA1-x:QN08"
    <<79, 67, 82, 65, 45, 49, 58, 72, 79, 84, 80, 45, 83, 72, 65, 49, 45, 120, 58, 81, 78, 48, 56>>,
    \* "OCRA-1:HOTP-SHA1-3:QN08"
    <<79, 67, 82, 65, 45, 49, 58, 72, 79, 84, 80, 45, 83, 72, 65, 49, 45, 51, 58, 81, 78, 48, 56>>,
    \* "OCRA-1:HOTP-SHA1-11:QN08"
    <<79, 67, 82, 65, 45, 49, 58, 72, 79, 84, 80, 45, 83, 72, 65, 49, 45, 49, 49, 58, 81, 78, 48, 56>>,
    \* "OCRA-1:HOTP-SHA1-6:QN99"
    <<79, 67, 82, 65, 45, 49, 58, 72, 79, 84, 80, 45, 83, 72, 65, 49, 45, 54, 58, 81, 78, 57, 57>>,
    \* "OCRA-1:HOTP-SHA1-6:QN8"
    <<79, 67, 82, 65, 45, 49, 58, 72, 79, 84, 80, 45, 83, 72, 65, 49, 45, 54, 58, 81, 78, 56>>,
    \* "OCRA-1:HOTP-SHA1-6:QX08"
    <<79, 67, 82, 65, 45, 49, 58, 72, 79, 84, 80, 45, 83, 72, 65, 49, 45, 54, 58, 81, 88, 48, 56>>,
    \* "OCRA-1:HOTP-SHA1-6:XYZ99"
    <<79, 67, 82, 65, 45, 49, 58, 72, 79, 84, 80, 45, 83, 72, 65, 49, 45, 54, 58, 88, 89, 90, 57, 57>>,
    \* "OCRA-1:HOTP-SHA1-6:QN08-PSHA1X"
    <<79, 67, 82, 65, 45, 49, 58, 72, 79, 84, 80, 45, 83, 72, 65, 49, 45, 54, 58, 81, 78, 48, 56, 45, 80, 83, 72, 65, 49, 88>>,
    \* "OCRA-1:HOTP-SHA1-6:QN08-Sxyz"
    <<79, 67, 82, 65, 45, 49, 58, 72, 79, 84, 80, 45, 83, 72, 65, 49, 45, 54, 58, 81, 78, 48, 56, 45, 83, 120, 121, 122>>,
    \* "OCRA-1:HOTP-SHA1-6:QN08-Tfoo"
    <<79, 67, 82, 65, 45, 49, 58, 72, 79, 84, 80, 45, 83, 72, 65, 49, 45, 54, 58, 81, 78, 48, 56, 45, 84, 102, 111, 111>>,
    \* "OCRA-1:HOTP-SHA1-6:QN08-T1D"
    <<79, 67, 82, 65, 45, 49, 58, 72, 79, 84, 80, 45, 83, 72, 65, 49, 45, 54, 58, 81, 78, 48, 56, 45, 84, 49, 68>>,
    \* "OCRA-1:HOTP-SHA1-6:QN08-T0S"
    <<79, 67, 82, 65, 45, 49, 58, 72, 79, 84, 80, 45, 83, 72, 65, 49, 45, 54, 58, 81, 78, 48, 56, 45, 84, 48, 83>>,
    \* "OCRA-1:HOTP-SHA1-6:QN08-T"
    <<79, 67, 82, 65, 45, 49, 58, 72, 79, 84, 80, 45, 83, 72, 65, 49, 45, 54, 58, 81, 78, 48, 56, 45, 84>>
    }

RawInputs == KnownRaws \cup GrammarRaws \cup MalformedRaws

\* the registered configurations, as NewRawSuite hands them out
RegisteredConfigs == {[knownSuites(raw) EXCEPT !.Raw = raw] : raw \in KnownRaws}

\* "OCRA-1:HOTP-SHA1-6:QN08"
BaseRaw == <<79, 67, 82, 65, 45, 49, 58, 72, 79, 84, 80, 45, 83, 72, 65, 49, 45, 54, 58, 81, 78, 48, 56>>

BaseConfig == [knownSuites(BaseRaw) EXCEPT !.Raw = BaseRaw]

\* SuiteConfig literals that each break one rule of SuiteConfig.Validate
BrokenConfigs ==
    {[BaseConfig EXCEPT !.Digits = 3],
     [BaseConfig EXCEPT !.Digits = 11],
     [BaseConfig EXCEPT !.Hash = hmacPoolsLen],
     [BaseConfig EXCEPT !.IncludePassword = TRUE],
     [BaseConfig EXCEPT !.IncludeTimestamp = TRUE],
     [BaseConfig EXCEPT !.IncludeTimestamp = TRUE, !.TimeStep = -1],
     [BaseConfig EXCEPT !.Challenge = ChallengeNone]}

\* valid SuiteConfig literals whose Raw is not a key of knownSuites
UnregisteredConfigs ==
    {[BaseConfig EXCEPT !.Raw = raw, !.Digits = 7] :
        raw \in {Descriptor(VersionOCRA1, CryptoFunction(SHA1, 7), SubSeq(BaseRaw, 20, 23)),
                 <<>>}}

ConfigInputs == RegisteredConfigs \cup BrokenConfigs \cup UnregisteredConfigs

\* SuiteConfig literals with the integer after the last ChallengeFormat, and
\* after the last PasswordHashAlgorithm, in an included field
ForeignFormatConfigs ==
    {[BaseConfig EXCEPT !.Challenge = ChallengeHex10 + 1],
     [BaseConfig EXCEPT !.IncludePassword = TRUE, !.PasswordHash = PasswordSHA512 + 1]}

\* OCRAInput values around each size rule of OCRAInput.Validate
OCRAInputs ==
    [Counter     : {Repeat(1, 8), Repeat(1, 7)},
     Challenge   : {Repeat(49, n) : n \in {7, 8, 10, 128, 129}},
     Password    : {Repeat(2, n) : n \in {0, 19, 20, 32, 64}},
     SessionInfo : {Repeat(3, n) : n \in {0, 5, 129}},
     Timestamp   : {Repeat(4, 8), Repeat(4, 9)}]

\* the inputs a verifier is handed: a wrong counter and a long challenge apart,
\* of the right sizes
VerifierInputs ==
    {in \in OCRAInputs : /\ Len(in.Challenge) \in {10, 129}
                         /\ Len(in.Password) \in {20, 32, 64}
                         /\ Len(in.SessionInfo) = 5
                         /\ Len(in.Timestamp) = 8}

\* an input every registered suite accepts but for the password
BaseInput == [Counter |-> Repeat(1, 8), Challenge |-> Repeat(49, 10), Password |-> <<>>,
              SessionInfo |-> <<>>, Timestamp |-> Repeat(4, 8)]

(***************************************************************************)
(* OCRA: the suite constructors, GenerateOCRA and ValidateOCRA.  The call  *)
(* records the suite in param, as <<cfg>>, and the OCRAInput in input; a   *)
(* constructor's raw string is the Raw of its param.                       *)
(***************************************************************************)
\* a validateRFC6287 that expects whatever length the code has
validateRFC6287AnyLength(world, code, secret, cfg, in) ==
    validate(code, Len(code), deriveRFC6287(world, secret, cfg, in))

validateRFC6287(world, code, secret, cfg, in) ==
    validate(code, cfg.Digits, deriveRFC6287(world, secret, cfg, in))

ValidateOCRA(world, secret, code, cfg, in) ==
    LET secretBuf == DecodeSecret(secret)
    IN  IF ~secretBuf.ok
        THEN WithTrace(Fail(FALSE, "CorruptInputError"), Trace(<<>>, 0, TRUE))
        ELSE LET r == validateRFC6287(world, code, secretBuf.bytes, cfg, in)
             IN  WithTrace(r, Trace(<<>>, r.derived, TRUE))

OCRACall(op, secret, code, cfg, in) ==
    [op |-> op, secret |-> secret, code |-> code, counter |-> U64(0), time |-> 0,
     param |-> <<cfg>>, input |-> in]

InitOCRA ==
    /\ hmacWorld \in MixWorlds
    /\ pc = "idle"
    /\ call = NoCall
    /\ ret = NoResult
    /\ trace = NoTrace
    /\ pool = NoPool
    /\ proc = NoProc

CallNewRawSuite ==
    /\ pc = "idle"
    /\ \E raw \in RawInputs :
          /\ call' = OCRACall("NewRawSuite", <<>>, <<>>, [ZeroSuiteConfig EXCEPT !.Raw = raw],
                              BaseInput)
          /\ ret' = Code(NewRawSuite(raw))
    /\ trace' = NoTrace
    /\ pc' = "returned"
    /\ UNCHANGED <<hmacWorld, pool, proc>>

CallMustRawSuite ==
    /\ pc = "idle"
    /\ \E raw \in RawInputs :
          /\ call' = OCRACall("MustRawSuite", <<>>, <<>>, [ZeroSuiteConfig EXCEPT !.Raw = raw],
                              BaseInput)
          /\ ret' = Code(MustRawSuite(raw))
    /\ trace' = NoTrace
    /\ pc' = "returned"
    /\ UNCHANGED <<hmacWorld, pool, proc>>

CallNewSuite ==
    /\ pc = "idle"
    /\ \E cfg \in ConfigInputs :
          /\ call' = OCRACall("NewSuite", <<>>, <<>>, cfg, BaseInput)
          /\ ret' = Code(NewSuite(cfg))
    /\ trace' = NoTrace
    /\ pc' = "returned"
    /\ UNCHANGED <<hmacWorld, pool, proc>>

\* the suites a caller holds: built by a constructor, or a literal
SuitesInHand ==
    {NewRawSuite(raw).val[1] : raw \in {r \in RawInputs : NewRawSuite(r).err = "nil"}}
    \cup {cfg \in ConfigInputs : NewSuite(cfg).err = "nil"}
    \cup BrokenConfigs
    \cup ForeignFormatConfigs

CallOCRAGenerate ==
    /\ pc = "idle"
    /\ \E secret \in Secrets, cfg \in SuitesInHand, in \in OCRAInputs :
          /\ secret = BadSecret => in = BaseInput
          /\ call' = OCRACall("GenerateOCRA", secret, <<>>, cfg, in)
          /\ ret' = Code(GenerateOCRA(hmacWorld, secret, cfg, in))
    /\ trace' = NoTrace
    /\ pc' = "returned"
    /\ UNCHANGED <<hmacWorld, pool, proc>>

\* the codes a verifier is handed: the one issued, one of the suite's length
\* that was not, and ones of other lengths
OCRACodes(world, secret, cfg, in) ==
    LET issued == GenerateOCRA(world, secret, cfg, in)
    IN  (IF issued.err = "nil" THEN {issued.val} ELSE {})
        \cup {Repeat(48, n) : n \in {0, 6, 7} \cup (IF cfg.Digits > 0 THEN {cfg.Digits} ELSE {})}

CallOCRAValidate ==
    /\ pc = "idle"
    /\ \E secret \in Secrets, cfg \in SuitesInHand, in \in VerifierInputs \cup {BaseInput} :
          \E code \in OCRACodes(hmacWorld, secret, cfg, in) :
             LET r == ValidateOCRA(hmacWorld, secret, code, cfg, in)
             IN  /\ secret = BadSecret => in = BaseInput
                 /\ call' = OCRACall("ValidateOCRA", secret, code, cfg, in)
                 /\ ret' = Verdict(r)
                 /\ trace' = r.trace
    /\ pc' = "returned"
    /\ UNCHANGED <<hmacWorld, pool, proc>>

NextOCRA ==
    \/ CallNewRawSuite
    \/ CallMustRawSuite
    \/ CallNewSuite
    \/ CallOCRAGenerate
    \/ CallOCRAValidate
    \/ Return

SpecOCRA == InitOCRA /\ [][NextOCRA]_vars

(***************************************************************************)
(* The three validators side by side                                       *)
(***************************************************************************)
NextValidate ==
    \/ CallValidateHOTP
    \/ CallValidateTOTP
    \/ CallOCRAValidate
    \/ Return

SpecValidate == Init /\ [][NextValidate]_vars

(***************************************************************************)
(* ParseOTPAuthURL.  A *url.URL is <<>> for nil or <<u>> with the fields   *)
(* Scheme, Host, Path and Query; Query is what u.Query() parses: the       *)
(* sequence of <<key, value>> pairs.  Texts are sequences of ASCII bytes.  *)
(***************************************************************************)
\* url.Values.Get: the first value of the key, or the empty string
RECURSIVE QueryGet(_, _)
QueryGet(query, key) ==
    IF query = <<>> THEN <<>>
    ELSE IF Head(query)[1] = key THEN Head(query)[2]
    ELSE QueryGet(Tail(query), key)

\* strings.ToLower on ASCII bytes
ToLowerBytes(s) == SubSeq([i \in 1..Len(s) |-> IF s[i] \in 65..90 THEN s[i] + 32 ELSE s[i]],
                          1, Len(s))

TrimPrefix(s, prefix) == IF HasPrefix(s, prefix) THEN SubSeq(s, Len(prefix) + 1, Len(s)) ELSE s

\* strings.SplitN(s, sep, 2) for a separator of one byte
SplitN2(s, sep) ==
    IF \E i \in 1..Len(s) : s[i] = sep
    THEN LET i == CHOOSE k \in 1..Len(s) : s[k] = sep /\ \A j \in 1..(k - 1) : s[j] # sep
         IN  <<SubSeq(s, 1, i - 1), SubSeq(s, i + 1, Len(s))>>
    ELSE <<s>>

\* uint(p) for an int p of small magnitude, as a uint64
UintOf(p) == IF p >= 0 THEN U64(p) ELSE U64Sub(U64(0), -p)

\* the digits, algorithm and period steps of ParseOTPAuthURL, each on the
\* parameter so far: (*URLParam, error) with a nil pointer being <<>>
ParseURLPeriod(param, query) ==
    LET periodStr == QueryGet(query, "period")
    IN  IF periodStr # <<>>
        THEN IF Atoi(periodStr).ok
             THEN Ok(<<[param EXCEPT !.Period = UintOf(Atoi(periodStr).val)]>>)
             ELSE Fail(<<>>, "invalid period value")
        ELSE Ok(<<param>>)

ParseURLAlgorithm(param, query) ==
    LET algStr == QueryGet(query, "algorithm")
    IN  IF algStr # <<>>
        THEN CASE ToUpperBytes(algStr) = <<83, 72, 65, 49>> ->
                    ParseURLPeriod([param EXCEPT !.Algorithm = SHA1], query)
               [] ToUpperBytes(algStr) = <<83, 72, 65, 50, 53, 54>> ->
                    ParseURLPeriod([param EXCEPT !.Algorithm = SHA256], query)
               [] ToUpperBytes(algStr) = <<83, 72, 65, 53, 49, 50>> ->
                    ParseURLPeriod([param EXCEPT !.Algorithm = SHA512], query)
               [] OTHER -> Fail(<<>>, "unsupported algorithm")
        ELSE ParseURLPeriod(param, query)

ParseURLDigits(param, query) ==
    LET digitsStr == QueryGet(query, "digits")
    IN  IF digitsStr # <<>>
        THEN IF Atoi(digitsStr).ok
             THEN ParseURLAlgorithm([param EXCEPT !.Digits = Atoi(digitsStr).val], query)
             ELSE Fail(<<>>, "invalid digits value")
        ELSE ParseURLAlgorithm(param, query)

ParseOTPAuthURL(u) ==
    IF u = <<>> THEN Fail(<<>>, "nil URL provided")
    ELSE IF u[1].Scheme # <<111, 116, 112, 97, 117, 116, 104>> THEN Fail(<<>>, "invalid URL scheme")
    ELSE IF ToLowerBytes(u[1].Host) # <<116, 111, 116, 112>>
            /\ ToLowerBytes(u[1].Host) # <<104, 111, 116, 112>>
    THEN Fail(<<>>, "unsupported OTP type")
    ELSE LET parts == SplitN2(TrimPrefix(u[1].Path, <<47>>), 58)
         IN  IF Len(parts) # 2 THEN Fail(<<>>, "invalid label format")
             ELSE ParseURLDigits([Issuer |-> parts[1], AccountName |-> parts[2],
                                  Secret |-> QueryGet(u[1].Query, "secret"),
                                  Digits |-> SixDigits, Algorithm |-> SHA1,
                                  Period |-> U64(30)],
                                 u[1].Query)

\* the schemes, hosts and paths of the URLs handed in
URLSchemes == {
    \* "otpauth"
    <<111, 116, 112, 97, 117, 116, 104>>,
    \* "http"
    <<104, 116, 116, 112>>
    }

\* hosts
URLHosts == {
    \* "totp"
    <<116, 111, 116, 112>>,
    \* "hotp"
    <<104, 111, 116, 112>>,
    \* "TOTP"
    <<84, 79, 84, 80>>,
    \* "foo"
    <<102, 111, 111>>
    }

\* paths
URLPaths == {
    \* "/MyApp:user@example.com"
    <<47, 77, 121, 65, 112, 112, 58, 117, 115, 101, 114, 64, 101, 120, 97, 109, 112, 108, 101, 46, 99, 111, 109>>,
    \* "/"
    <<47>>,
    \* "/Issuer"
    <<47, 73, 115, 115, 117, 101, 114>>,
    \* "Issuer:user"
    <<73, 115, 115, 117, 101, 114, 58, 117, 115, 101, 114>>,
    \* "/a:b:c"
    <<47, 97, 58, 98, 58, 99>>
    }

\* secret values
URLSecrets == {
    \* "ABCDEF123456"
    <<65, 66, 67, 68, 69, 70, 49, 50, 51, 52, 53, 54>>
    }

\* digits values
URLDigits == {
    \* "8"
    <<56>>,
    \* "abc"
    <<97, 98, 99>>,
    \* "0"
    <<48>>,
    \* "-1"
    <<45, 49>>
    }

\* algorithm values
URLAlgorithms == {
    \* "SHA256"
    <<83, 72, 65, 50, 53, 54>>,
    \* "sha512"
    <<115, 104, 97, 53, 49, 50>>,
    \* "MD5"
    <<77, 68, 53>>
    }

\* period values
URLPeriods == {
    \* "45"
    <<52, 53>>,
    \* "abc"
    <<97, 98, 99>>,
    \* "0"
    <<48>>,
    \* "-5"
    <<45, 53>>
    }

\* a query parameter that is absent, or present with one of the values
OptionalParam(key, values) == {<<>>} \cup {<<<<key, v>>>> : v \in values}

URLQueries ==
    {s \o d \o a \o p : s \in OptionalParam("secret", URLSecrets),
                        d \in OptionalParam("digits", URLDigits),
                        a \in OptionalParam("algorithm", URLAlgorithms),
                        p \in OptionalParam("period", URLPeriods)}

URLs ==
    {<<>>} \cup {<<u>> : u \in [Scheme : URLSchemes, Host : URLHosts, Path : URLPaths,
                                 Query : URLQueries]}

CallParseOTPAuthURL ==
    /\ pc = "idle"
    /\ \E u \in URLs :
          /\ call' = [op |-> "ParseOTPAuthURL", secret |-> <<>>, code |-> <<>>,
                      counter |-> U64(0), time |-> 0, param |-> <<>>, url |-> u]
          /\ ret' = Code(ParseOTPAuthURL(u))
    /\ trace' = NoTrace
    /\ pc' = "returned"
    /\ UNCHANGED <<hmacWorld, pool, proc>>

(***************************************************************************)
(* GenerateTOTPURL and GenerateHOTPURL.  The *url.URL built has the fields *)
(* Scheme, Host, Path and RawQuery; RawQuery is what url.Values.Encode     *)
(* writes, kept as the sequence of <<key, escaped value>> pairs in the     *)
(* order of the keys.                                                      *)
(***************************************************************************)
\* the bytes no escaping touches: letters, digits and - _ . ~
Unreserved == (48..57) \cup (65..90) \cup (97..122) \cup {45, 95, 46, 126}

\* the two upper-case hexadecimal digits of a byte, after '%'
PercentHex(c) ==
    LET hex(n) == IF n < 10 THEN 48 + n ELSE 55 + n
    IN  <<37, hex(c \div 16), hex(c % 16)>>

\* url.PathEscape: of the reserved bytes $ & + = : @ stay as they are
RECURSIVE PathEscape(_)
PathEscape(t) ==
    IF t = <<>> THEN <<>>
    ELSE (IF Head(t) \in Unreserved \cup {36, 38, 43, 61, 58, 64} THEN <<Head(t)>>
          ELSE PercentHex(Head(t)))
         \o PathEscape(Tail(t))

\* url.QueryEscape: a space becomes '+', every other byte that is not
\* unreserved is percent-encoded
RECURSIVE QueryEscape(_)
QueryEscape(t) ==
    IF t = <<>> THEN <<>>
    ELSE (IF Head(t) \in Unreserved THEN <<Head(t)>>
          ELSE IF Head(t) = 32 THEN <<43>>
          ELSE PercentHex(Head(t)))
         \o QueryEscape(Tail(t))

\* the value of a hexadecimal digit
UnHex(c) == IF c \in 48..57 THEN c - 48 ELSE IF c \in 97..102 THEN c - 87 ELSE c - 55

\* url.QueryUnescape on what QueryEscape writes
RECURSIVE QueryUnescape(_)
QueryUnescape(t) ==
    IF t = <<>> THEN <<>>
    ELSE IF Head(t) = 37 /\ Len(t) >= 3
    THEN <<UnHex(t[2]) * 16 + UnHex(t[3])>> \o QueryUnescape(SubSeq(t, 4, Len(t)))
    ELSE IF Head(t) = 43 THEN <<32>> \o QueryUnescape(Tail(t))
    ELSE <<Head(t)>> \o QueryUnescape(Tail(t))

\* u.Query(): the pairs of RawQuery with their values unescaped
URLQuery(rawQuery) ==
    [i \in 1..Len(rawQuery) |-> <<rawQuery[i][1], QueryUnescape(rawQuery[i][2])>>]

\* the URL as ParseOTPAuthURL reads it
AsParsed(u) ==
    [Scheme |-> u.Scheme, Host |-> u.Host, Path |-> u.Path, Query |-> URLQuery(u.RawQuery)]

\* Algorithm.String(): the entry of algoStrMap, "" for a key it does not hold
AlgorithmString(algo) ==
    CASE algo = SHA1 -> <<83, 72, 65, 49>>
      [] algo = SHA256 -> <<83, 72, 65, 50, 53, 54>>
      [] algo = SHA512 -> <<83, 72, 65, 53, 49, 50>>
      [] OTHER -> <<>>

\* url.PathEscape(fmt.Sprintf("%s:%s", param.Issuer, param.AccountName))
generateOTPURLLabel(issuer, accountName) == PathEscape(issuer \o <<58>> \o accountName)

\* generateOTPURL: (*url.URL, error); extra is the type-specific pair, whose
\* key sorts after "algorithm" and before "digits" (counter) or after
\* "issuer" and before "secret" (period)
generateOTPURL(kind, param, extra) ==
    IF param.Issuer = <<>> THEN Fail(<<>>, "ErrIssuerRequired")
    ELSE IF param.AccountName = <<>> THEN Fail(<<>>, "ErrAccountNameRequired")
    ELSE IF param.Secret = <<>> THEN Fail(<<>>, "ErrSecretRequired")
    ELSE LET digits    == IF param.Digits = 0 THEN SixDigits ELSE param.Digits
             algorithm == <<"algorithm", QueryEscape(AlgorithmString(param.Algorithm))>>
             digitsKV  == <<"digits", QueryEscape(Itoa(digits))>>
             issuer    == <<"issuer", QueryEscape(param.Issuer)>>
             secret    == <<"secret", QueryEscape(param.Secret)>>
             extraKV   == <<extra[1], QueryEscape(extra[2])>>
         IN  Ok(<<[Scheme   |-> <<111, 116, 112, 97, 117, 116, 104>>,
                   Host     |-> kind,
                   Path     |-> <<47>> \o generateOTPURLLabel(param.Issuer, param.AccountName),
                   RawQuery |-> IF extra[1] = "counter"
                                THEN <<algorithm, extraKV, digitsKV, issuer, secret>>
                                ELSE <<algorithm, digitsKV, issuer, extraKV, secret>>]>>)

\* GenerateTOTPURL: a period of 0 becomes 30
GenerateTOTPURL(param) ==
    generateOTPURL(<<116, 111, 116, 112>>, param,
                   <<"period", Itoa(IF param.Period = 0 THEN DefaultPeriod ELSE param.Period)>>)

GenerateHOTPURL(param) ==
    generateOTPURL(<<104, 111, 116, 112>>, param, <<"counter", <<48>>>>)

\* issuers: plain, with a colon, with a slash, with a space
IssuerTexts == {
    \* "MyApp"
    <<77, 121, 65, 112, 112>>,
    \* "a:b"
    <<97, 58, 98>>,
    \* "a/b"
    <<97, 47, 98>>,
    \* "My App"
    <<77, 121, 32, 65, 112, 112>>
    }

\* account names: plain, with a colon, with a space
AccountTexts == {
    \* "user@example.com"
    <<117, 115, 101, 114, 64, 101, 120, 97, 109, 112, 108, 101, 46, 99, 111, 109>>,
    \* "u:v"
    <<117, 58, 118>>,
    \* "u v"
    <<117, 32, 118>>
    }

\* the URLParam values handed to the generators; Period is a small uint
URLParams ==
    [Issuer : IssuerTexts \cup {<<>>}, AccountName : AccountTexts \cup {<<>>},
     Secret : {<<65, 66, 67, 68, 69, 70, 49, 50, 51, 52, 53, 54>>, <<>>},
     Digits : {0, SixDigits, EightDigits, NineDigits, TenDigits},
     Algorithm : {SHA1, SHA256, SHA512},
     Period : {0, 1, DefaultPeriod, 2 * DefaultPeriod}]

CallGenerateTOTPURL ==
    /\ pc = "idle"
    /\ \E param \in URLParams :
          /\ call' = [op |-> "GenerateTOTPURL", secret |-> <<>>, code |-> <<>>,
                      counter |-> U64(0), time |-> 0, param |-> <<param>>, url |-> <<>>]
          /\ ret' = Code(GenerateTOTPURL(param))
    /\ trace' = NoTrace
    /\ pc' = "returned"
    /\ UNCHANGED <<hmacWorld, pool, proc>>

CallGenerateHOTPURL ==
    /\ pc = "idle"
    /\ \E param \in URLParams :
          /\ call' = [op |-> "GenerateHOTPURL", secret |-> <<>>, code |-> <<>>,
                      counter |-> U64(0), time |-> 0, param |-> <<param>>, url |-> <<>>]
          /\ ret' = Code(GenerateHOTPURL(param))
    /\ trace' = NoTrace
    /\ pc' = "returned"
    /\ UNCHANGED <<hmacWorld, pool, proc>>

NextURL ==
    \/ CallParseOTPAuthURL
    \/ CallGenerateTOTPURL
    \/ CallGenerateHOTPURL
    \/ Return

SpecURL == Init /\ [][NextURL]_vars

(***************************************************************************)
(* Concurrent calls.  Each goroutine runs deriveRFC4226 or deriveRFC6287   *)
(* one statement at a time: Get a buffer from the pool, write the message, *)
(* hash it, and Put the buffer back when the function returns (defer).     *)
(* A validation repeats this for each counter of its window.  The secret   *)
(* bytes and the hash are the goroutine's own: hp.new builds a new HMAC    *)
(* for every call and the pool field of hmacPools is never used.           *)
(***************************************************************************)
\* the capacity of a buffer of rfc6287BufPool
msgBufCap == 256

ConcurrentParam(digits) == [Digits |-> digits, Period |-> 0, Skew |-> 1, Algorithm |-> SHA1]

\* "OCRA-1:HOTP-SHA1-6:C"
CounterRaw == <<79, 67, 82, 65, 45, 49, 58, 72, 79, 84, 80, 45, 83, 72, 65, 49, 45, 54, 58, 67>>

\* "OCRA-1:HOTP-SHA1-6:C-QN08-PSHA1-S-T1"
FullRaw == <<79, 67, 82, 65, 45, 49, 58, 72, 79, 84, 80, 45, 83, 72, 65, 49, 45, 54, 58, 67, 45, 81, 78, 48, 56, 45, 80, 83, 72, 65, 49, 45, 83, 45, 84, 49>>

\* "OCRA-1:HOTP-SHA1-6:T1M-S-PSHA1-QN08-C": the data input's tokens in reverse order
ReversedRaw == <<79, 67, 82, 65, 45, 49, 58, 72, 79, 84, 80, 45, 83, 72, 65, 49, 45, 54, 58, 84, 49, 77, 45, 83, 45, 80, 83, 72, 65, 49, 45, 81, 78, 48, 56, 45, 67>>

CounterConfig == NewRawSuite(CounterRaw).val[1]

ReversedConfig == NewRawSuite(ReversedRaw).val[1]

FullConfig == NewRawSuite(FullRaw).val[1]

FullInput == [BaseInput EXCEPT !.Password = Repeat(2, 20), !.SessionInfo = Repeat(3, 5)]

\* the counters ValidateHOTP derives for, in order, from the offset i on
RECURSIVE HOTPWindow(_, _, _)
HOTPWindow(counter, skew, i) ==
    IF i > skew THEN <<>>
    ELSE IF i < 0 /\ Int64Less(counter, -i) THEN HOTPWindow(counter, skew, i + 1)
    ELSE <<IF i < 0 THEN U64Sub(counter, -i) ELSE U64Add(counter, i)>>
         \o HOTPWindow(counter, skew, i + 1)

\* the fields deriveRFC6287 appends to msg, in order
OCRAFields(cfg, in) ==
    <<cfg.Raw, <<separator>>>>
    \o (IF cfg.IncludeCounter THEN <<padBytes(in.Counter, 8)>> ELSE <<>>)
    \o (IF cfg.IncludeChallenge THEN <<padBytes(in.Challenge, 128)>> ELSE <<>>)
    \o (IF cfg.IncludePassword THEN <<in.Password>> ELSE <<>>)
    \o (IF cfg.IncludeSession THEN <<padBytes(in.SessionInfo, 128)>> ELSE <<>>)
    \o (IF cfg.IncludeTimestamp THEN <<padBytes(in.Timestamp, 8)>> ELSE <<>>)

\* a call as a goroutine starts it
ConcurrentCall(op, counter, code, suite, input, digits) ==
    [IdleProc EXCEPT !.op = op, !.counter = counter, !.code = code, !.suite = suite,
                     !.input = input, !.digits = digits]

\* the error a call returns before it derives anything, or "nil"
EarlyError(c) ==
    CASE c.op = "ValidateHOTP" -> IF Len(c.code) # c.digits THEN "ErrInvalidCode" ELSE "nil"
      [] c.op = "GenerateHOTP" ->
            IF c.algo < 0 \/ c.algo >= hmacPoolsLen THEN "ErrUnsupportedAlgorithm" ELSE "nil"
      [] c.op = "ValidateOCRA" /\ Len(c.code) # c.digits -> "ErrInvalidCodeLength"
      [] c.op \in {"GenerateOCRA", "ValidateOCRA"} ->
            IF SuiteConfigValidate(c.suite[1]) # "nil" THEN SuiteConfigValidate(c.suite[1])
            ELSE OCRAInputValidate(c.input[1], c.suite[1])
      [] OTHER -> "nil"

\* the messages a call derives for, in order, each as the fields written
PlanOf(c) ==
    CASE c.op = "GenerateHOTP" -> <<<<PutUint64(c.counter)>>>>
      [] c.op = "ValidateHOTP" ->
            LET w == HOTPWindow(c.counter, ConcurrentParam(c.digits).Skew,
                                -ConcurrentParam(c.digits).Skew)
            IN  [i \in 1..Len(w) |-> <<PutUint64(w[i])>>]
      [] OTHER -> <<OCRAFields(c.suite[1], c.input[1])>>

Validating(c) == c.op \in {"ValidateHOTP", "ValidateOCRA"}

\* the buffer's pool for the call
PoolOf(c) == IF c.op \in {"GenerateHOTP", "ValidateHOTP"} THEN "rfc4226BufPool"
             ELSE "rfc6287BufPool"

\* the key of every call: the decoded PlainSecret
ConcurrentKey == DecodeSecret(PlainSecret).bytes

\* the code derived from the bytes hashed
DerivedFrom(world, c, hashed) ==
    IF PoolOf(c) = "rfc4226BufPool"
    THEN deriveRFC4226Truncate(hmacSum(world, c.algo, ConcurrentKey, hashed), c.digits)
    ELSE Ok(formatDecimal(truncate(hmacSum(world, c.suite[1].Hash, ConcurrentKey, hashed),
                                   mod10[c.suite[1].Digits + 1]), c.suite[1].Digits))

\* the world of the concurrent calls
ConcurrentWorld == MixWorld(0)

\* the calls the goroutines make
ConcurrentCalls ==
    {ConcurrentCall("GenerateHOTP", MaxUint64, <<>>, <<>>, <<>>, SixDigits),
     ConcurrentCall("GenerateHOTP", U64(0), <<>>, <<>>, <<>>, 11),
     [ConcurrentCall("GenerateHOTP", U64(0), <<>>, <<>>, <<>>, SixDigits)
         EXCEPT !.algo = hmacPoolsLen]}
    \cup {ConcurrentCall("ValidateHOTP", U64(0), code, <<>>, <<>>, SixDigits) :
            code \in {GenerateHOTP(ConcurrentWorld, PlainSecret, U64(1),
                                   <<ConcurrentParam(SixDigits)>>).val}}
    \cup {ConcurrentCall("GenerateOCRA", U64(0), <<>>, <<cfg>>, <<FullInput>>, cfg.Digits) :
            cfg \in {CounterConfig, ReversedConfig}}
    \cup {ConcurrentCall("GenerateOCRA", U64(0), <<>>, <<CounterConfig>>,
                         <<[FullInput EXCEPT !.Counter = Repeat(1, 7)]>>, CounterConfig.Digits)}
    \cup {ConcurrentCall("GenerateOCRA", U64(0), <<>>, <<[CounterConfig EXCEPT !.Digits = 3]>>,
                         <<FullInput>>, 3)}
    \cup {ConcurrentCall("ValidateOCRA", U64(0), code, <<CounterConfig>>, <<FullInput>>,
                         CounterConfig.Digits) :
            code \in {GenerateOCRA(ConcurrentWorld, PlainSecret, CounterConfig, FullInput).val}}

\* a Get that hands the buffer out and leaves it in the pool
PoolGetKept(free, b) == free

\* sync.Pool.Get on the free list: the buffer taken leaves the pool
PoolGet(free, b) == free \ {b}

\* a Put that is left out
PoolPutLost(free, b) == free

\* sync.Pool.Put
PoolPut(free, b) == free \cup {b}

\* the buffers some goroutine holds
Held == {b \in Buffers : \E g \in Goroutines : proc[g].buf = <<b>>}

InitConcurrent ==
    /\ hmacWorld = ConcurrentWorld
    /\ pc = "idle"
    /\ call = NoCall
    /\ ret = NoResult
    /\ trace = NoTrace
    /\ pool = NoPool
    /\ proc = NoProc

\* a goroutine calls: the checks before the first derivation are local
GoCall(g) ==
    /\ proc[g].pc = "idle"
    /\ \E c \in ConcurrentCalls :
          proc' = [proc EXCEPT ![g] =
                     IF EarlyError(c) # "nil"
                     THEN [c EXCEPT !.pc = "done",
                                    !.ret = IF Validating(c)
                                            THEN Verdict(Fail(FALSE, EarlyError(c)))
                                            ELSE Code(Fail(<<>>, EarlyError(c)))]
                     ELSE [c EXCEPT !.pc = "get", !.plan = PlanOf(c)]]
    /\ UNCHANGED <<hmacWorld, pc, call, ret, trace, pool>>

\* rfc4226BufPool.Get() / rfc6287BufPool.Get(): a free buffer, or a new one,
\* which takes the least number not in use
GoGet(g) ==
    /\ proc[g].pc = "get"
    /\ \E b \in Buffers :
          /\ b[1] = PoolOf(proc[g])
          /\ \/ /\ b \in pool.free
                /\ pool' = [pool EXCEPT !.free = PoolGet(pool.free, b)]
             \/ /\ b \notin pool.free /\ b \notin Held
                /\ \A a \in Buffers :
                      (a[1] = b[1] /\ a[2] < b[2]) => (a \in pool.free \/ a \in Held)
                /\ pool' = [pool EXCEPT !.mem[b] = NewBuffer(b)]
          /\ proc' = [proc EXCEPT ![g].pc = "write", ![g].buf = <<b>>]
    /\ UNCHANGED <<hmacWorld, pc, call, ret, trace>>

\* a write of the counter that sets the last four bytes of the buffer only
WriteCounterLow(buf, bytes) == SubSeq(buf, 1, 4) \o SubSeq(bytes, 5, 8)

\* binary.BigEndian.PutUint64(buf[:], counter): all eight bytes of the buffer
\* are assigned, bytes being the counter's
WriteCounter(buf, bytes) == bytes

RECURSIVE AppendFields(_, _, _, _)
\* msg = append(msg, field...) for each field: into the buffer while the
\* capacity lasts, into a new array of the goroutine's own from then on
AppendFields(backing, msg, own, fields) ==
    IF fields = <<>> THEN [backing |-> backing, msg |-> msg, own |-> own]
    ELSE LET grown == msg \o Head(fields)
         IN  IF own \/ Len(grown) > msgBufCap
             THEN AppendFields(backing, grown, TRUE, Tail(fields))
             ELSE AppendFields(grown \o SubSeq(backing, Len(grown) + 1, Len(backing)),
                               grown, FALSE, Tail(fields))

\* binary.BigEndian.PutUint64(buf[:], counter), or the appends to msg; msg is
\* kept only when it has left the buffer
GoWrite(g) ==
    /\ proc[g].pc = "write"
    /\ LET b == proc[g].buf[1]
           w == IF PoolOf(proc[g]) = "rfc4226BufPool"
                THEN [backing |-> WriteCounter(pool.mem[b], Head(proc[g].plan)[1]),
                      msg |-> <<>>, own |-> FALSE]
                ELSE AppendFields(pool.mem[b], <<>>, FALSE, Head(proc[g].plan))
       IN  /\ pool' = [pool EXCEPT !.mem[b] = w.backing]
           /\ proc' = [proc EXCEPT ![g].pc = "hash",
                                   ![g].msg = IF w.own THEN w.msg ELSE <<>>]
    /\ UNCHANGED <<hmacWorld, pc, call, ret, trace>>

\* the length of the message being derived for
PlannedLen(p) == SumSeq([i \in 1..Len(Head(p.plan)) |-> Len(Head(p.plan)[i])])

\* mac.Write(buf[:]) / mac.Write(msg): the bytes are read where they lie
GoHash(g) ==
    /\ proc[g].pc = "hash"
    /\ proc' = [proc EXCEPT ![g].pc = "put",
                            ![g].hashed = IF proc[g].msg # <<>> THEN proc[g].msg
                                          ELSE SubSeq(pool.mem[proc[g].buf[1]], 1,
                                                      PlannedLen(proc[g]))]
    /\ UNCHANGED <<hmacWorld, pc, call, ret, trace, pool>>

\* the call after one derivation returned r: a Generate returns it, a
\* validation compares and returns or goes on to the next counter
AfterDerive(p, r) ==
    LET idle == [p EXCEPT !.buf = <<>>, !.msg = <<>>, !.hashed = <<>>, !.plan = Tail(p.plan)]
    IN  IF r.panic # "none"
        THEN [idle EXCEPT !.pc = "done", !.ret = IF Validating(p) THEN Verdict(r) ELSE Code(r)]
        ELSE IF ~Validating(p) THEN [idle EXCEPT !.pc = "done", !.ret = Code(r)]
        ELSE IF ConstantTimeCompare(p.code, r.val)
        THEN [idle EXCEPT !.pc = "done", !.ret = Verdict(Ok(TRUE))]
        ELSE IF Tail(p.plan) # <<>> THEN [idle EXCEPT !.pc = "get"]
        ELSE [idle EXCEPT !.pc = "done", !.ret = Verdict(Fail(FALSE, "ErrInvalidCode"))]

\* the rest of the derivation, and the deferred Put as it returns or panics
GoPut(g) ==
    /\ proc[g].pc = "put"
    /\ pool' = [pool EXCEPT !.free = PoolPut(pool.free, proc[g].buf[1])]
    /\ proc' = [proc EXCEPT ![g] = AfterDerive(proc[g],
                                               DerivedFrom(hmacWorld, proc[g], proc[g].hashed))]
    /\ UNCHANGED <<hmacWorld, pc, call, ret, trace>>

\* the caller takes the result
GoReturn(g) ==
    /\ proc[g].pc = "done"
    /\ proc' = [proc EXCEPT ![g] = IdleProc]
    /\ UNCHANGED <<hmacWorld, pc, call, ret, trace, pool>>

\* the garbage collector empties a pool's free list of a buffer
PoolDrop ==
    /\ \E b \in pool.free : pool' = [pool EXCEPT !.free = pool.free \ {b},
                                                 !.mem[b] = NewBuffer(b)]
    /\ UNCHANGED <<hmacWorld, pc, call, ret, trace, proc>>

NextConcurrent ==
    \/ \E g \in Goroutines : GoCall(g)
    \/ \E g \in Goroutines : GoGet(g)
    \/ \E g \in Goroutines : GoWrite(g)
    \/ \E g \in Goroutines : GoHash(g)
    \/ \E g \in Goroutines : GoPut(g)
    \/ \E g \in Goroutines : GoReturn(g)
    \/ PoolDrop

SpecConcurrent == InitConcurrent /\ [][NextConcurrent]_vars

(***************************************************************************)
(* The RFC 4226 test vectors, under the real HMAC-SHA1                     *)
(***************************************************************************)
RFCParam == [Digits |-> SixDigits, Period |-> 0, Skew |-> 0, Algorithm |-> SHA1]

InitRFC ==
    /\ hmacWorld = ShaWorld({RFCKey}, {PutUint64(U64(n)) : n \in 0..(Len(RFCExpected) - 1)})
    /\ pc = "idle"
    /\ call = NoCall
    /\ ret = NoResult
    /\ trace = NoTrace
    /\ pool = NoPool
    /\ proc = NoProc

CallGenerateHOTPVector ==
    /\ pc = "idle"
    /\ \E n \in 0..(Len(RFCExpected) - 1) :
          /\ call' = [op |-> "GenerateHOTP", secret |-> RFCSecret, code |-> <<>>,
                      counter |-> U64(n), time |-> 0, param |-> <<RFCParam>>]
          /\ ret' = Code(GenerateHOTP(hmacWorld, RFCSecret, U64(n), <<RFCParam>>))
    /\ trace' = NoTrace
    /\ pc' = "returned"
    /\ UNCHANGED <<hmacWorld, pool, proc>>

\* TestValidateOTP_RFC4226, and each expected code at the other counters
CallValidateVector ==
    /\ pc = "idle"
    /\ \E n \in 0..(Len(RFCExpected) - 1), want \in Range(RFCExpected) :
          LET r == validateRFC4226(hmacWorld, want, RFCKey, U64(n), SixDigits, SHA1)
          IN  /\ call' = [op |-> "validateRFC4226", secret |-> RFCKey, code |-> want,
                          counter |-> U64(n), time |-> 0, param |-> <<RFCParam>>]
              /\ ret' = Verdict(r)
              /\ trace' = Trace(<<U64(n)>>, r.derived, FALSE)
    /\ pc' = "returned"
    /\ UNCHANGED <<hmacWorld, pool, proc>>

NextRFC ==
    \/ CallGenerateHOTPVector
    \/ CallValidateVector
    \/ Return

SpecRFC == InitRFC /\ [][NextRFC]_vars

(***************************************************************************)
(* DecodeSecret alone, over short secret texts                             *)
(***************************************************************************)
\* a blank, a lower-case and an upper-case letter, a digit of the alphabet and
\* a character outside it
SecretAlphabet == {" ", "m", "Y", "2", "1"}

RECURSIVE TextsOf(_, _)
\* the texts of exactly n characters of an alphabet
TextsOf(alphabet, n) ==
    IF n = 0 THEN {<<>>}
    ELSE {Append(t, c) : t \in TextsOf(alphabet, n - 1), c \in alphabet}

SecretTexts == UNION {TextsOf(SecretAlphabet, n) : n \in 0..MaxSecretLen}

\* the (bytes, error) result of a decoding
Decoded(d) == IF d.ok THEN Ok(d.bytes) ELSE Fail(<<>>, "CorruptInputError")

CallDecodeSecret ==
    /\ pc = "idle"
    /\ \E secret \in SecretTexts :
          /\ call' = [op |-> "DecodeSecret", secret |-> secret, code |-> <<>>,
                      counter |-> U64(0), time |-> 0, param |-> <<>>]
          /\ ret' = Code(Decoded(DecodeSecret(secret)))
    /\ trace' = NoTrace
    /\ pc' = "returned"
    /\ UNCHANGED <<hmacWorld, pool, proc>>

NextDecode ==
    \/ CallDecodeSecret
    \/ Return

SpecDecode == Init /\ [][NextDecode]_vars

(***************************************************************************)
(* The claims.  In a state with pc = "returned", call holds the operation  *)
(* and its arguments, ret what it returned and trace what it did.          *)
(***************************************************************************)
HOTPParamOf == IF call.param = <<>> THEN DefaultHOTPParam ELSE call.param[1]

TOTPParamOf == IF call.param = <<>> THEN DefaultTOTPParam ELSE call.param[1]

ValidDigits == {SixDigits, EightDigits, NineDigits, TenDigits}

Returned(op) == pc = "returned" /\ call.op = op

\* the code issued for the call's secret and parameters p at the counter c
CodeAt(p, c) ==
    deriveRFC4226(hmacWorld, DecodeSecret(call.secret).bytes, c, p.Digits, p.Algorithm).val

\* a ValidateHOTP call with an accepted skew, a decodable secret, a digit
\* count in {6,8,9,10} and one of the three algorithms
ValidHOTPValidation ==
    /\ Returned("ValidateHOTP")
    /\ HOTPParamOf.Skew <= SkewCap
    /\ HOTPParamOf.Digits \in ValidDigits
    /\ HOTPParamOf.Algorithm \in SupportedAlgorithms
    /\ DecodeSecret(call.secret).ok

\* C1: HOTP round trip.  A ValidateHOTP call with Skew = 0, a decodable
\* secret, a digit count in {6,8,9,10} and one of the three algorithms, given
\* the code GenerateHOTP returns for the same secret, counter and parameters,
\* returns (true, nil).
C1_RoundTripHOTP ==
    (/\ ValidHOTPValidation
     /\ HOTPParamOf.Skew = 0
     /\ call.code = GenerateHOTP(hmacWorld, call.secret, call.counter, call.param).val)
    => ret = Verdict(Ok(TRUE))

\* a round trip at the largest counter, with ten digits and SHA512
C1_Witness ==
    /\ ValidHOTPValidation
    /\ HOTPParamOf.Skew = 0
    /\ HOTPParamOf.Digits = TenDigits
    /\ HOTPParamOf.Algorithm = SHA512
    /\ call.counter = MaxUint64
    /\ call.code = GenerateHOTP(hmacWorld, call.secret, call.counter, call.param).val
    /\ ret = Verdict(Ok(TRUE))

\* the counters c + j, |j| <= k, that are uint64 values
WindowCounters(c, k) == UNION {Range(Shifted(c, j)) : j \in (-k)..k}

\* the counters c - (k + 1) and c + (k + 1) that are uint64 values
BesideWindow(c, k) == Range(Shifted(c, -(k + 1))) \cup Range(Shifted(c, k + 1))

\* C2: window correctness.  A ValidateHOTP call with counter c and Skew k in
\* 0..10 accepts the code generated at every counter c + j, |j| <= k, and
\* rejects with ErrInvalidCode the code generated at c - (k + 1) or
\* c + (k + 1) when that code differs from the codes at the counters of the
\* window and at the counters the call tried.
C2_Window ==
    ValidHOTPValidation =>
        LET p       == HOTPParamOf
            inside  == {CodeAt(p, c) : c \in WindowCounters(call.counter, p.Skew)}
            tried   == {CodeAt(p, c) : c \in Range(trace.tested)}
            outside == {CodeAt(p, c) : c \in BesideWindow(call.counter, p.Skew)}
        IN  /\ call.code \in inside => ret = Verdict(Ok(TRUE))
            /\ (call.code \in outside /\ call.code \notin inside \cup tried)
                  => ret = Verdict(Fail(FALSE, "ErrInvalidCode"))

\* C3: ValidateHOTP with Skew > 10 returns (false, ErrInvalidSkew) whatever the
\* secret, code and counter are, having tried no counter, made no derivation
\* and not decoded the secret.
C3_SkewRejectedUpFront ==
    (Returned("ValidateHOTP") /\ HOTPParamOf.Skew > SkewCap)
    => (ret = Verdict(Fail(FALSE, "ErrInvalidSkew")) /\ trace = Trace(<<>>, 0, FALSE))

\* a call with Skew > 10 and a secret that is not base32
C3_Witness ==
    /\ Returned("ValidateHOTP")
    /\ HOTPParamOf.Skew > SkewCap
    /\ ~DecodeSecret(call.secret).ok
    /\ ret = Verdict(Fail(FALSE, "ErrInvalidSkew"))

\* a ValidateHOTP or ValidateTOTP call that reaches its window
WindowedValidation ==
    \/ Returned("ValidateHOTP") /\ HOTPParamOf.Skew <= SkewCap /\ DecodeSecret(call.secret).ok
    \/ Returned("ValidateTOTP") /\ DecodeSecret(call.secret).ok

ValidationParamOf == IF call.op = "ValidateHOTP" THEN HOTPParamOf ELSE TOTPParamOf

\* C4: typed failures of windowed validation.  ValidateHOTP and ValidateTOTP
\* return ErrInvalidCodeLength when the length of the code differs from the
\* digit count, ErrUnsupportedAlgorithm when the algorithm is none of the
\* three, and ErrInvalidCode only when the code has the right length and the
\* algorithm is supported, so that every position was derived.
C4_TypedFailures ==
    WindowedValidation =>
        LET p == ValidationParamOf
        IN  /\ Len(call.code) # p.Digits => ret = Verdict(Fail(FALSE, "ErrInvalidCodeLength"))
            /\ (Len(call.code) = p.Digits /\ p.Algorithm \notin SupportedAlgorithms)
                  => ret = Verdict(Fail(FALSE, "ErrUnsupportedAlgorithm"))
            /\ (ret.panic = "none" /\ ret.err = "ErrInvalidCode")
                  => (Len(call.code) = p.Digits /\ p.Algorithm \in SupportedAlgorithms
                      /\ trace.derived = Len(trace.tested))

\* C5: digit invariant.  Every code a derivation returns without error
\* (deriveRFC4226 for 1..10 digits, GenerateOCRA for suites of 4..10 digits)
\* has as many characters as digits were asked for, each one of '0'..'9'.
C5_DigitInvariant ==
    (/\ pc = "returned"
     /\ call.op \in {"deriveRFC4226", "GenerateOCRA"}
     /\ ret.panic = "none"
     /\ ret.err = "nil")
    => (/\ Len(ret.val) = call.param[1].Digits
        /\ \A i \in 1..Len(ret.val) : ret.val[i] \in 48..57)

\* codes of both derivations whose truncated value has fewer digits than asked
C5_Witness ==
    /\ hmacWorld.bin = <<0, 15, 66, 63>>
    /\ \/ Returned("deriveRFC4226") /\ call.param[1].Digits = EightDigits
       \/ Returned("GenerateOCRA") /\ call.param[1].Digits = TenDigits
    /\ ret.err = "nil"
    /\ Len(ret.val) = call.param[1].Digits
    /\ ret.val[1] = 48

\* the 31-bit value the digest of a "fixed" world carries
FixedValue(world) ==
    (world.bin[1] % 128) * 16777216 + world.bin[2] * 65536 + world.bin[3] * 256 + world.bin[4]

\* the last d decimal digits of v, as ASCII: v mod 10^d written with d digits,
\* and v itself for d = 10, since v < 2^31 < 10^10
Decimal(v, d) == [i \in 1..d |-> 48 + ((v \div (10 ^ (d - i))) % 10)]

\* C6: truncation modulus.  For d in 1..10 digits and a truncated value v, the
\* code deriveRFC4226 returns is v mod 10^d; for d = 10 it is v itself, padded
\* with zeros to 10 characters.
C6_TruncationModulus ==
    (Returned("deriveRFC4226") /\ ret.panic = "none" /\ ret.err = "nil")
    => ret.val = Decimal(FixedValue(hmacWorld), call.param[1].Digits)

\* C7: the RFC 4226 vectors.  With the secret "12345678901234567890", SHA1 and
\* 6 digits, GenerateHOTP returns at the counters 0..9 the codes of Appendix D,
\* and each of these codes validates at its own counter.
C7_RFC4226Vectors ==
    /\ Returned("GenerateHOTP") => ret = Code(Ok(RFCExpected[call.counter[4] + 1]))
    /\ (Returned("validateRFC4226") /\ call.code = RFCExpected[call.counter[4] + 1])
         => ret = Verdict(Ok(TRUE))

\* the code 520489 accepted at the counter 9
C7_Witness ==
    /\ Returned("validateRFC4226")
    /\ call.counter = U64(9)
    /\ call.code = <<53, 50, 48, 52, 56, 57>>
    /\ ret = Verdict(Ok(TRUE))

\* a GenerateTOTP or ValidateTOTP call with a decodable secret, a period >= 1,
\* a digit count in {6,8,9,10} and one of the three algorithms
ValidTOTPCall(op) ==
    /\ Returned(op)
    /\ TOTPParamOf.Period >= 1
    /\ TOTPParamOf.Digits \in ValidDigits
    /\ TOTPParamOf.Algorithm \in SupportedAlgorithms
    /\ DecodeSecret(call.secret).ok

\* C8: TOTP is HOTP at the time step.  For a time t >= 0 and a period >= 1
\* GenerateTOTP returns what GenerateHOTP returns at the counter
\* floor(t / period); every time of the same step gives the same code; and
\* ValidateTOTP accepts, at the time t, the code GenerateTOTP returns for t.
C8_TOTPIsHOTPAtStep ==
    /\ (Returned("GenerateTOTP") /\ TOTPParamOf.Period >= 1)
         => /\ ret = Code(GenerateHOTP(hmacWorld, call.secret,
                                       U64(call.time \div TOTPParamOf.Period), call.param))
            /\ \A t \in Times :
                  t \div TOTPParamOf.Period = call.time \div TOTPParamOf.Period
                  => Code(GenerateTOTP(hmacWorld, call.secret, t, call.param)) = ret
    /\ (/\ ValidTOTPCall("ValidateTOTP")
        /\ call.code = GenerateTOTP(hmacWorld, call.secret, call.time, call.param).val)
         => ret = Verdict(Ok(TRUE))

\* a code of the second step of a 30 second period, issued at its last second
C8_Witness ==
    /\ ValidTOTPCall("GenerateTOTP")
    /\ TOTPParamOf.Period = DefaultPeriod
    /\ call.time = DefaultPeriod
    /\ ret.err = "nil"
    /\ ret = Code(GenerateHOTP(hmacWorld, call.secret, U64(1), call.param))
    /\ ret # Code(GenerateHOTP(hmacWorld, call.secret, U64(0), call.param))

\* C9: the skew cap in TOTP validation.  ValidateTOTP with Skew > 10 returns
\* (false, ErrInvalidSkew) without a derivation, and no validation call
\* derives more than 21 codes.
C9_SkewCapTOTP ==
    /\ (Returned("ValidateTOTP") /\ TOTPParamOf.Skew > SkewCap)
         => (ret = Verdict(Fail(FALSE, "ErrInvalidSkew")) /\ trace.derived = 0)
    /\ (pc = "returned" /\ call.op \in {"ValidateHOTP", "ValidateTOTP"})
         => trace.derived <= 2 * SkewCap + 1

\* C10: no fatal abort.  Whatever Param.Digits is, GenerateHOTP, GenerateTOTP
\* (with a period >= 1), ValidateHOTP and ValidateTOTP return a code or an
\* error; none panics.
C10_NoPanic ==
    (/\ pc = "returned"
     /\ call.op \in {"GenerateHOTP", "GenerateTOTP", "ValidateHOTP", "ValidateTOTP"}
     /\ (call.op = "GenerateTOTP" => TOTPParamOf.Period >= 1))
    => ret.panic = "none"

\* s with every blank removed and every letter upper-cased, right-padded with
\* '=' to a multiple of 8 characters
Normalised(s) ==
    LET t == ToUpper(SelectSeq(s, LAMBDA c : c # " "))
        n == Len(t) % 8
    IN  IF n # 0 THEN t \o Repeat("=", 8 - n) ELSE t

\* C11: secret decoding is case-insensitive and blank-tolerant.  DecodeSecret
\* gives for every secret text the result (the bytes or the failure) that the
\* base-32 decoding gives for the text with every blank removed, leading,
\* trailing and interior, every letter upper-cased and '=' appended up to a
\* multiple of 8 characters.
C11_DecodeNormalises ==
    Returned("DecodeSecret") => ret = Code(Decoded(DecodeString(Normalised(call.secret))))

\* the raw string handed to a suite constructor
RawOf(c) == c.param[1].Raw

\* C12: for every key s of the registry, NewRawSuite(s) returns no error, the
\* registered entry passes Validate, and both String() and Config().Raw of
\* the suite returned are s.
C12_RegistryRoundTrip ==
    (Returned("NewRawSuite") /\ RawOf(call) \in KnownRaws) =>
        /\ SuiteConfigValidate(knownSuites(RawOf(call))) = "nil"
        /\ ret.err = "nil" /\ ret.panic = "none"
        /\ SuiteString(ret.val) = RawOf(call)
        /\ SuiteConfigOf(ret.val).Raw = RawOf(call)

\* a registered suite with every data input has been built
C12_Witness ==
    /\ Returned("NewRawSuite") /\ RawOf(call) \in KnownRaws
    /\ ret.err = "nil"
    /\ SuiteConfigOf(ret.val).IncludeCounter /\ SuiteConfigOf(ret.val).IncludePassword
    /\ SuiteConfigOf(ret.val).IncludeSession /\ SuiteConfigOf(ret.val).IncludeTimestamp
    /\ SuiteString(ret.val) = RawOf(call)

\* the suite handed to an OCRA operation, and its input
SuiteOf(c) == c.param[1]

\* what the specification requires of every suite in use
SuiteInvariant(cfg) ==
    /\ cfg.IncludePassword => cfg.PasswordHash # PasswordNone
    /\ cfg.IncludeTimestamp => cfg.TimeStep > 0
    /\ cfg.IncludeChallenge => cfg.Challenge # ChallengeNone
    /\ 4 <= cfg.Digits /\ cfg.Digits <= 10
    /\ cfg.Hash \in {SHA1, SHA256, SHA512}

\* C13: every Suite that NewRawSuite or NewSuite returns without an error
\* satisfies the suite invariants (password hash set when a password is
\* included, positive time step when a timestamp is included, challenge format
\* set when a challenge is included, 4 to 10 digits, a supported hash), and
\* GenerateOCRA and ValidateOCRA return an error and no code or acceptance for
\* any suite that breaks one, a SuiteConfig literal included.
C13_SuiteInvariants ==
    /\ ((Returned("NewRawSuite") \/ Returned("NewSuite") \/ Returned("MustRawSuite"))
            /\ ret.err = "nil" /\ ret.panic = "none")
        => (ret.val # <<>> /\ SuiteInvariant(SuiteConfigOf(ret.val)))
    /\ (Returned("GenerateOCRA") /\ ~SuiteInvariant(SuiteOf(call)))
        => (ret.err # "nil" /\ ret.panic = "none" /\ ret.val = <<>>)
    /\ (Returned("ValidateOCRA") /\ ~SuiteInvariant(SuiteOf(call)))
        => (ret.err # "nil" /\ ret.panic = "none" /\ ~ret.valid)

\* a literal with a password but no password hash was refused by GenerateOCRA,
\* with a decodable secret and an input of the right sizes
C13_Witness ==
    /\ Returned("GenerateOCRA")
    /\ SuiteOf(call).IncludePassword /\ SuiteOf(call).PasswordHash = PasswordNone
    /\ DecodeSecret(call.secret).ok
    /\ OCRAInputValidate(call.input, SuiteOf(call)) = "nil"
    /\ ret.err = "password input enabled but no password hash specified"

\* a string of one or more decimal digits
IsNumber(s) == s # <<>> /\ \A i \in 1..Len(s) : s[i] \in 48..57

\* a data-input token of the descriptor grammar: C, Q<N|A|H><08|10>,
\* PSHA1, PSHA256, PSHA512, S, or T<number><S|M|H>
GrammarToken(tok) ==
    \/ tok = <<67>>
    \/ Len(tok) = 4 /\ tok[1] = 81 /\ tok[2] \in {78, 65, 72}
                    /\ SubSeq(tok, 3, 4) \in {<<48, 56>>, <<49, 48>>}
    \/ tok \in {<<80, 83, 72, 65, 49>>, <<80, 83, 72, 65, 50, 53, 54>>,
                <<80, 83, 72, 65, 53, 49, 50>>}
    \/ tok = <<83>>
    \/ Len(tok) >= 3 /\ tok[1] = 84 /\ IsNumber(SubSeq(tok, 2, Len(tok) - 1))
                     /\ tok[Len(tok)] \in {83, 77, 72}

\* the crypto part HOTP-<HASH>-<DIGITS>
GrammarCrypto(crypto) ==
    \E hash \in SupportedAlgorithms :
        LET head == CryptoHOTP \o HashName(hash) \o <<45>>
        IN  HasPrefix(crypto, head) /\ IsNumber(SubSeq(crypto, Len(head) + 1, Len(crypto)))

\* the descriptor grammar OCRA-1:HOTP-<HASH>-<DIGITS>:<TOKENS>
InGrammar(raw) ==
    LET parts == Split(raw, 58)
    IN  /\ Len(parts) = 3
        /\ parts[1] = VersionOCRA1
        /\ GrammarCrypto(parts[2])
        /\ \A i \in 1..Len(Split(parts[3], 45)) : GrammarToken(Split(parts[3], 45)[i])

\* C14: NewRawSuite returns an error for every string outside the grammar
\* OCRA-1:HOTP-<HASH>-<DIGITS>:<TOKENS> (a fourth colon segment, a version
\* that only starts with OCRA-1, a token that starts with S or T and goes on
\* with other text), and MustRawSuite panics on it.  The registry keys, which
\* NewRawSuite looks up before it parses, are left aside.
C14_RejectsOutsideGrammar ==
    /\ (Returned("NewRawSuite") /\ RawOf(call) \notin KnownRaws /\ ~InGrammar(RawOf(call)))
        => ret.err # "nil"
    /\ (Returned("MustRawSuite") /\ RawOf(call) \notin KnownRaws /\ ~InGrammar(RawOf(call)))
        => ret.panic # "none"

\* the tokens of a descriptor of the grammar, and its digit count
TokensOf(raw) == Split(Split(raw, 58)[3], 45)

DigitsOf(raw) == DecimalOf(Split(Split(raw, 58)[2], 45)[3])

HashOf(raw) == CHOOSE hash \in SupportedAlgorithms : Split(Split(raw, 58)[2], 45)[2] = HashName(hash)

\* the token of the grammar that starts with the byte b, if there is one
HasToken(raw, b) == \E i \in 1..Len(TokensOf(raw)) : TokensOf(raw)[i][1] = b

TokenAt(raw, b) == TokensOf(raw)[CHOOSE i \in 1..Len(TokensOf(raw)) : TokensOf(raw)[i][1] = b]

\* the challenge format a Q token names
ChallengeOfToken(tok) ==
    CASE tok[2] = 78 /\ tok[4] = 56 -> ChallengeNumeric08
      [] tok[2] = 78 /\ tok[4] = 48 -> ChallengeNumeric10
      [] tok[2] = 65 /\ tok[4] = 56 -> ChallengeAlpha08
      [] tok[2] = 65 /\ tok[4] = 48 -> ChallengeAlpha10
      [] tok[2] = 72 /\ tok[4] = 56 -> ChallengeHex08
      [] tok[2] = 72 /\ tok[4] = 48 -> ChallengeHex10

\* the password hash a P token names
PasswordHashOfToken(tok) ==
    CASE Len(tok) = 5 -> PasswordSHA1
      [] tok[5] = 50 -> PasswordSHA256
      [] OTHER -> PasswordSHA512

\* the seconds a T token names
TimeStepOfToken(tok) ==
    DecimalOf(SubSeq(tok, 2, Len(tok) - 1))
        * (CASE tok[Len(tok)] = 83 -> 1 [] tok[Len(tok)] = 77 -> 60 [] OTHER -> 3600)

\* the suite a descriptor of the grammar describes
DescribedSuite(raw) ==
    [Raw |-> raw, Hash |-> HashOf(raw), Digits |-> DigitsOf(raw),
     Challenge |-> IF HasToken(raw, 81) THEN ChallengeOfToken(TokenAt(raw, 81))
                   ELSE ChallengeNone,
     IncludeCounter |-> HasToken(raw, 67), IncludeChallenge |-> HasToken(raw, 81),
     IncludePassword |-> HasToken(raw, 80), IncludeSession |-> HasToken(raw, 83),
     IncludeTimestamp |-> HasToken(raw, 84),
     PasswordHash |-> IF HasToken(raw, 80) THEN PasswordHashOfToken(TokenAt(raw, 80))
                      ELSE PasswordNone,
     TimeStep |-> IF HasToken(raw, 84) THEN TimeStepOfToken(TokenAt(raw, 84)) ELSE 0]

\* C15: for every descriptor of the grammar with a supported hash and 4 to 10
\* digits, registered or not, NewRawSuite returns no error and a suite whose
\* flags are those of the tokens present, whose challenge format is the one
\* the Q token names, whose password hash is the one the P token names, and
\* whose time step is the T token's number times 1, 60 or 3600.  A T token
\* with the number 0, which no suite may carry, is left aside.
C15_ParsesWholeGrammar ==
    (Returned("NewRawSuite") /\ InGrammar(RawOf(call))
        /\ DigitsOf(RawOf(call)) \in 4..10
        /\ (HasToken(RawOf(call), 84) => TimeStepOfToken(TokenAt(RawOf(call), 84)) > 0))
    => (ret.err = "nil" /\ SuiteConfigOf(ret.val) = DescribedSuite(RawOf(call)))

\* C16: NewSuite(cfg) returns an error whenever cfg.Raw is not a key of the
\* registry, even for an otherwise valid configuration, and returns a Suite
\* only when the configuration is valid and registered.
C16_NewSuiteRegistered ==
    Returned("NewSuite") =>
        (ret.err = "nil" <=> (SuiteInvariant(SuiteOf(call)) /\ RawOf(call) \in KnownRaws))

\* the values of the ChallengeFormat and PasswordHashAlgorithm enumerations
ChallengeFormats == ChallengeNone..ChallengeHex10

PasswordHashAlgorithms == PasswordNone..PasswordSHA512

\* the suite's formats are values of their enumerations
DeclaredFormats(cfg) ==
    cfg.Challenge \in ChallengeFormats /\ cfg.PasswordHash \in PasswordHashAlgorithms

\* the least challenge a format admits, and the size of a password hash
MinChallenge(format) ==
    IF format \in {ChallengeNumeric10, ChallengeAlpha10, ChallengeHex10} THEN 10 ELSE 8

PasswordSize(hash) ==
    CASE hash = PasswordSHA1 -> 20 [] hash = PasswordSHA256 -> 32 [] hash = PasswordSHA512 -> 64

\* an included field of the input breaks its size rule
SizeRuleBroken(cfg, in) ==
    \/ cfg.IncludeCounter /\ Len(in.Counter) # 8
    \/ cfg.IncludeChallenge /\ (Len(in.Challenge) < MinChallenge(cfg.Challenge)
                                \/ Len(in.Challenge) > 128)
    \/ cfg.IncludePassword /\ Len(in.Password) # PasswordSize(cfg.PasswordHash)
    \/ cfg.IncludeSession /\ Len(in.SessionInfo) > 128
    \/ cfg.IncludeTimestamp /\ Len(in.Timestamp) # 8

C18_SingleShotRoundTrip ==
    (Returned("ValidateOCRA") /\ DecodeSecret(call.secret).ok)
    => /\ trace.derived <= 1
       /\ Len(call.code) # SuiteOf(call).Digits
            => (ret = Verdict(Fail(FALSE, "ErrInvalidCodeLength")) /\ trace.derived = 0)
       /\ (Len(call.code) = SuiteOf(call).Digits /\ SuiteInvariant(SuiteOf(call))
             /\ DeclaredFormats(SuiteOf(call))
             /\ ~SizeRuleBroken(SuiteOf(call), call.input))
            => ret = Verdict(IF call.code = GenerateOCRA(hmacWorld, call.secret,
                                                         SuiteOf(call), call.input).val
                             THEN Ok(TRUE)
                             ELSE Fail(FALSE, "ErrInvalidCode"))

\* the code issued for a suite with every data input was accepted after one
\* derivation
C18_Witness ==
    /\ Returned("ValidateOCRA") /\ DecodeSecret(call.secret).ok
    /\ SuiteOf(call).IncludeCounter /\ SuiteOf(call).IncludePassword
    /\ SuiteOf(call).IncludeSession /\ SuiteOf(call).IncludeTimestamp
    /\ call.code = GenerateOCRA(hmacWorld, call.secret, SuiteOf(call), call.input).val
    /\ GenerateOCRA(hmacWorld, call.secret, SuiteOf(call), call.input).err = "nil"
    /\ ret = Verdict(Ok(TRUE))
    /\ trace.derived = 1

\* the label of a URL's path, and where its first colon is (0 if nowhere)
LabelOf(u) == IF u.Path # <<>> /\ u.Path[1] = 47 THEN Tail(u.Path) ELSE u.Path

ColonOf(label) ==
    IF \E i \in 1..Len(label) : label[i] = 58
    THEN CHOOSE i \in 1..Len(label) : label[i] = 58 /\ \A j \in 1..(i - 1) : label[j] # 58
    ELSE 0

\* a query parameter is present, with a value
Present(u, key) == QueryGet(u.Query, key) # <<>>

\* the values a present digits, algorithm or period parameter may have
ValidDigitsText(text) == IsNumber(text) /\ DecimalOf(text) \in ValidDigits

ValidAlgorithmText(text) == \E hash \in SupportedAlgorithms : ToUpperBytes(text) = HashName(hash)

ValidPeriodText(text) == IsNumber(text) /\ DecimalOf(text) > 0

\* the URLs the contract refuses
RefusedURL(url) ==
    \/ url = <<>>
    \/ url[1].Scheme # <<111, 116, 112, 97, 117, 116, 104>>
    \/ ToLowerBytes(url[1].Host) \notin {<<116, 111, 116, 112>>, <<104, 111, 116, 112>>}
    \/ ColonOf(LabelOf(url[1])) = 0
    \/ Present(url[1], "digits") /\ ~ValidDigitsText(QueryGet(url[1].Query, "digits"))
    \/ Present(url[1], "algorithm") /\ ~ValidAlgorithmText(QueryGet(url[1].Query, "algorithm"))
    \/ Present(url[1], "period") /\ ~ValidPeriodText(QueryGet(url[1].Query, "period"))

\* the parameters the contract returns for a URL it accepts
AcceptedParam(u) ==
    [Issuer      |-> SubSeq(LabelOf(u), 1, ColonOf(LabelOf(u)) - 1),
     AccountName |-> SubSeq(LabelOf(u), ColonOf(LabelOf(u)) + 1, Len(LabelOf(u))),
     Secret      |-> QueryGet(u.Query, "secret"),
     Digits      |-> IF Present(u, "digits") THEN DecimalOf(QueryGet(u.Query, "digits"))
                     ELSE SixDigits,
     Algorithm   |-> IF Present(u, "algorithm")
                     THEN CHOOSE hash \in SupportedAlgorithms :
                              ToUpperBytes(QueryGet(u.Query, "algorithm")) = HashName(hash)
                     ELSE SHA1,
     Period      |-> IF Present(u, "period") THEN U64(DecimalOf(QueryGet(u.Query, "period")))
                     ELSE U64(DefaultPeriod)]

\* C19: ParseOTPAuthURL returns an error when the URL is nil, the scheme is
\* not otpauth, the host is neither totp nor hotp, the path is not of the form
\* Issuer:AccountName, or a digits, algorithm or period parameter is present
\* but invalid; otherwise it returns the issuer and account name of the path
\* and the secret of the query, with 6 digits, SHA1 and a period of 30 for
\* each parameter that is absent.
C19_ParseOTPAuthURL ==
    Returned("ParseOTPAuthURL") =>
        IF RefusedURL(call.url)
        THEN ret.err # "nil" /\ ret.val = <<>>
        ELSE ret.err = "nil" /\ ret.val = <<AcceptedParam(call.url[1])>>

\* what the call of a goroutine returns when no other call runs
Alone(p) ==
    CASE p.op = "GenerateHOTP" ->
            Code(GenerateHOTP(hmacWorld, PlainSecret, p.counter,
                              <<[ConcurrentParam(p.digits) EXCEPT !.Algorithm = p.algo]>>))
      [] p.op = "ValidateHOTP" ->
            Verdict(ValidateHOTP(hmacWorld, PlainSecret, p.code, p.counter,
                                 <<ConcurrentParam(p.digits)>>))
      [] p.op = "GenerateOCRA" ->
            Code(GenerateOCRA(hmacWorld, PlainSecret, p.suite[1], p.input[1]))
      [] p.op = "ValidateOCRA" ->
            Verdict(ValidateOCRA(hmacWorld, PlainSecret, p.code, p.suite[1], p.input[1]))

\* the bytes of a list of fields
RECURSIVE Flatten(_)
Flatten(fields) == IF fields = <<>> THEN <<>> ELSE Head(fields) \o Flatten(Tail(fields))

\* C20: under every interleaving of concurrent HOTP and OCRA derive and
\* validate calls, no pooled buffer is held by two calls in flight at once,
\* the bytes a call hashes are the bytes that call wrote, and every call
\* returns what it returns when it runs alone.
C20_ConcurrentDerivation ==
    /\ \A g, h \in Goroutines :
          (g # h /\ proc[g].buf # <<>>) => proc[g].buf # proc[h].buf
    /\ \A g \in Goroutines :
          /\ proc[g].buf # <<>> => proc[g].buf[1] \notin pool.free
          /\ proc[g].pc = "put" => proc[g].hashed = Flatten(Head(proc[g].plan))
          /\ proc[g].pc = "done" => proc[g].ret = Alone(proc[g])

\* one goroutine has hashed its message in a buffer that the other one had
\* used before and now works beside it, holding another buffer of that pool
C20_Witness ==
    /\ proc["g1"].pc = "put" /\ proc["g1"].op = "ValidateHOTP"
    /\ Len(proc["g1"].plan) = 1
    /\ proc["g2"].pc = "hash" /\ proc["g2"].op = "GenerateHOTP"
    /\ proc["g1"].buf # proc["g2"].buf
    /\ proc["g1"].hashed = PutUint64(U64(1))

\* C21: for a fixed secret, counter, digit count and algorithm the HOTP
\* derivation returns the same code on every call, whatever calls went before
\* and whatever the pooled buffer it is handed held: every GenerateHOTP
\* returns the code deriveRFC4226 computes from its arguments alone, so two
\* calls with the same arguments agree.
C21_Determinism ==
    /\ \A g \in Goroutines :
          (proc[g].pc = "done" /\ proc[g].op = "GenerateHOTP") =>
              proc[g].ret = Code(deriveRFC4226(hmacWorld, ConcurrentKey, proc[g].counter,
                                               proc[g].digits, proc[g].algo))
    /\ \A g, h \in Goroutines :
          (proc[g].pc = "done" /\ proc[h].pc = "done"
              /\ proc[g].op = "GenerateHOTP" /\ proc[h].op = "GenerateHOTP"
              /\ proc[g].counter = proc[h].counter /\ proc[g].digits = proc[h].digits
              /\ proc[g].algo = proc[h].algo)
          => proc[g].ret = proc[h].ret

\* one goroutine has hashed counter 2^64-1 in a buffer while the other
\* buffer, left in the pool by a ValidateHOTP, holds counter 1, and the other
\* goroutine, which derived counter 2^64-1 earlier, holds its code
C21_Witness ==
    /\ proc["g1"].pc = "put" /\ proc["g1"].op = "GenerateHOTP"
    /\ proc["g1"].counter = MaxUint64 /\ proc["g1"].digits = SixDigits
    /\ proc["g1"].buf = << <<"rfc4226BufPool", 1>> >>
    /\ proc["g1"].hashed = PutUint64(MaxUint64)
    /\ pool.mem[<<"rfc4226BufPool", 2>>] = PutUint64(U64(1))
    /\ <<"rfc4226BufPool", 2>> \in pool.free
    /\ proc["g2"].pc = "done" /\ proc["g2"].op = "GenerateHOTP"
    /\ proc["g2"].counter = MaxUint64 /\ proc["g2"].digits = SixDigits
    /\ proc["g2"].ret = Code(deriveRFC4226(hmacWorld, ConcurrentKey, MaxUint64, SixDigits, SHA1))

\* the bytes x followed by zeros up to n bytes
ZeroFilled(x, n) == x \o [i \in 1..(n - Len(x)) |-> 0]

\* the message of the layout: raw, 0x00, then counter, challenge, password,
\* session info and timestamp, each only if the suite includes it
LayoutOf(cfg, in) ==
    cfg.Raw \o <<0>>
    \o (IF cfg.IncludeCounter THEN in.Counter ELSE <<>>)
    \o (IF cfg.IncludeChallenge THEN ZeroFilled(in.Challenge, 128) ELSE <<>>)
    \o (IF cfg.IncludePassword THEN in.Password ELSE <<>>)
    \o (IF cfg.IncludeSession THEN ZeroFilled(in.SessionInfo, 128) ELSE <<>>)
    \o (IF cfg.IncludeTimestamp THEN in.Timestamp ELSE <<>>)

LayoutLen(cfg, in) ==
    Len(cfg.Raw) + 1
    + (IF cfg.IncludeCounter THEN 8 ELSE 0)
    + (IF cfg.IncludeChallenge THEN 128 ELSE 0)
    + (IF cfg.IncludePassword THEN Len(in.Password) ELSE 0)
    + (IF cfg.IncludeSession THEN 128 ELSE 0)
    + (IF cfg.IncludeTimestamp THEN 8 ELSE 0)

\* C22: whenever a goroutine has hashed the message of an OCRA call, the bytes
\* hashed are the suite's raw string, one 0x00 byte, and then, in this order
\* and only if the suite includes them, the 8-byte counter, the challenge
\* followed by zeros up to 128 bytes, the password as given, the session info
\* followed by zeros up to 128 bytes and the 8-byte timestamp; their number is
\* len(raw) + 1 + 8[C] + 128[Q] + len(password)[P] + 128[S] + 8[T], whatever
\* the order of the tokens in the suite's descriptor.
C22_MessageLayout ==
    \A g \in Goroutines :
        (proc[g].op \in {"GenerateOCRA", "ValidateOCRA"} /\ proc[g].hashed # <<>>) =>
            /\ proc[g].hashed = LayoutOf(proc[g].suite[1], proc[g].input[1])
            /\ Len(proc[g].hashed) = LayoutLen(proc[g].suite[1], proc[g].input[1])

\* the suite whose descriptor lists timestamp, session, password, challenge
\* and counter in this order has had its message of 313 bytes hashed
C22_Witness ==
    \E g \in Goroutines :
        /\ proc[g].op = "GenerateOCRA" /\ proc[g].suite = <<ReversedConfig>>
        /\ proc[g].suite[1].Raw = ReversedRaw
        /\ proc[g].suite[1].IncludeCounter /\ proc[g].suite[1].IncludeChallenge
        /\ proc[g].suite[1].IncludePassword /\ proc[g].suite[1].IncludeSession
        /\ proc[g].suite[1].IncludeTimestamp
        /\ Len(proc[g].input[1].Challenge) = 10 /\ Len(proc[g].input[1].SessionInfo) = 5
        /\ Len(proc[g].hashed) = Len(ReversedRaw) + 1 + 8 + 128 + 20 + 128 + 8

\* the digit count a validation call expects of the code
ExpectedLength(c) ==
    IF c.op = "ValidateOCRA" THEN c.param[1].Digits
    ELSE IF c.param = <<>> THEN SixDigits
    ELSE c.param[1].Digits

\* C23: a ValidateHOTP, ValidateTOTP or ValidateOCRA call whose code has not
\* the expected number of digits has derived nothing when it returns: at no
\* position of the window was a keyed hash computed.
C23_NoDerivationOnLengthMismatch ==
    (/\ pc = "returned"
     /\ call.op \in {"ValidateHOTP", "ValidateTOTP", "ValidateOCRA"}
     /\ Len(call.code) # ExpectedLength(call))
    => trace.derived = 0

\* a ValidateHOTP with a decoded secret and a code of the wrong length has
\* gone through a window of three positions or more and refused the code
C23_Witness ==
    /\ pc = "returned" /\ call.op = "ValidateHOTP"
    /\ call.param # <<>>
    /\ Len(call.code) # call.param[1].Digits
    /\ trace.decoded /\ Len(trace.tested) >= 3
    /\ trace.derived = 0
    /\ ret.err = "ErrInvalidCode" /\ ~ret.valid

\* C24: a call that has returned holds no buffer, whether it returned a
\* code, a verdict, a panic or an error (unsupported algorithm, invalid suite,
\* invalid input); a buffer is held only by a call between its Get and its
\* deferred Put; and every buffer that was written to is in its pool or held
\* by a call in flight, so that when all calls have returned none is checked
\* out.
C24_BuffersReleased ==
    /\ \A g \in Goroutines :
          /\ proc[g].pc \in {"idle", "get", "done"} => proc[g].buf = <<>>
          /\ proc[g].pc \in {"write", "hash", "put"} => proc[g].buf # <<>>
    /\ \A b \in Buffers :
          pool.mem[b] # NewBuffer(b) => (b \in pool.free \/ b \in Held)
    /\ (\A g \in Goroutines : proc[g].pc \in {"idle", "done"}) => Held = {}

\* one call has returned ErrUnsupportedAlgorithm, the other has returned the
\* code of an OCRA derivation, and the buffer it wrote to is back in the pool
C24_Witness ==
    /\ proc["g1"].pc = "done" /\ proc["g1"].op = "GenerateHOTP"
    /\ proc["g1"].ret.err = "ErrUnsupportedAlgorithm"
    /\ proc["g2"].pc = "done" /\ proc["g2"].op = "GenerateOCRA"
    /\ proc["g2"].ret.err = "nil" /\ proc["g2"].suite = <<ReversedConfig>>
    /\ Held = {}
    /\ \E b \in pool.free : b[1] = "rfc6287BufPool" /\ pool.mem[b] # NewBuffer(b)

\* the counter a windowed validation centres its window on
WindowCentre ==
    IF call.op = "ValidateHOTP" THEN call.counter
    ELSE TimeCounterFunc(call.time, IF TOTPParamOf.Period = 0 THEN DefaultPeriod
                                    ELSE TOTPParamOf.Period)

\* C25: a ValidateHOTP or ValidateTOTP call with counter c and Skew k <= 10
\* tries only counters c + i, -k <= i <= k, taken in the integers and lying
\* in 0..2^64-1, never one that wrapped around; a call that goes through its
\* whole window without a match has tried every one of them.
C25_WindowArithmetic ==
    (WindowedValidation /\ ValidationParamOf.Skew <= SkewCap) =>
        LET window == WindowCounters(WindowCentre, ValidationParamOf.Skew)
        IN  /\ Range(trace.tested) \subseteq window
            /\ (ret.panic = "none" /\ ret.err = "ErrInvalidCode")
                  => Range(trace.tested) = window

\* the period ValidateTOTP divides the time by
ValidationPeriod(p) == IF p.Period = 0 THEN DefaultPeriod ELSE p.Period

\* C26: a GenerateTOTP call with a decodable secret, a digit count in
\* {6,8,9,10} and a supported algorithm returns the code of the time-step
\* counter ValidateTOTP computes for the same time and Param, a Period of 0
\* standing for 30 seconds, and ValidateTOTP accepts that code at that time.
C26_PeriodAgreement ==
    (/\ Returned("GenerateTOTP")
     /\ DecodeSecret(call.secret).ok
     /\ TOTPParamOf.Digits \in ValidDigits
     /\ TOTPParamOf.Algorithm \in SupportedAlgorithms)
    => /\ ret = Code(deriveRFC4226(hmacWorld, DecodeSecret(call.secret).bytes,
                                   TimeCounterFunc(call.time, ValidationPeriod(TOTPParamOf)),
                                   TOTPParamOf.Digits, TOTPParamOf.Algorithm))
       /\ ret.panic = "none" /\ ret.err = "nil"
       /\ Verdict(ValidateTOTP(hmacWorld, call.secret, ret.val, call.time, call.param))
             = Verdict(Ok(TRUE))

\* C27: for every key of the registry the grammar parser succeeds on the
\* key and yields the configuration NewRawSuite returns for it from the
\* registry: hash, digits, challenge format, inclusion flags, password hash
\* and time step.
C27_RegistryAgreesWithParser ==
    (Returned("NewRawSuite") /\ RawOf(call) \in KnownRaws) =>
        /\ ret.err = "nil"
        /\ parseRawSuite(RawOf(call)).err = "nil"
        /\ parseRawSuite(RawOf(call)).cfg = ret.val[1]

\* C28: GenerateOCRA returns an error for a suite whose Challenge or
\* PasswordHash, in a field the suite includes, is no value of its
\* enumeration, and whenever it returns a code the password, if included, is
\* 20, 32 or 64 bytes long and the challenge, if included, at least 8 bytes.
C28_ClosedEnumerations ==
    (Returned("GenerateOCRA") /\ DecodeSecret(call.secret).ok) =>
        LET cfg == call.param[1]
            in  == call.input
        IN  /\ (cfg.IncludeChallenge /\ cfg.Challenge \notin ChallengeFormats)
                  => ret.err # "nil"
            /\ (cfg.IncludePassword /\ cfg.PasswordHash \notin PasswordHashAlgorithms)
                  => ret.err # "nil"
            /\ (ret.err = "nil" /\ ret.panic = "none") =>
                  /\ cfg.IncludePassword => Len(in.Password) \in {20, 32, 64}
                  /\ cfg.IncludeChallenge => Len(in.Challenge) >= 8

\* two inputs agree on every field the suite includes
AgreeOnIncluded(cfg, a, b) ==
    /\ cfg.IncludeCounter => a.Counter = b.Counter
    /\ cfg.IncludeChallenge => a.Challenge = b.Challenge
    /\ cfg.IncludePassword => a.Password = b.Password
    /\ cfg.IncludeSession => a.SessionInfo = b.SessionInfo
    /\ cfg.IncludeTimestamp => a.Timestamp = b.Timestamp

\* what the fields a suite excludes may hold: nothing, bytes of the right
\* sizes with other content, and too many bytes
OtherFields ==
    {[Counter |-> <<>>, Challenge |-> <<>>, Password |-> <<>>, SessionInfo |-> <<>>,
      Timestamp |-> <<>>],
     [Counter |-> Repeat(9, 8), Challenge |-> Repeat(57, 10), Password |-> Repeat(9, 20),
      SessionInfo |-> Repeat(9, 5), Timestamp |-> Repeat(9, 8)],
     [Counter |-> Repeat(1, 7), Challenge |-> Repeat(49, 129), Password |-> Repeat(2, 19),
      SessionInfo |-> Repeat(3, 129), Timestamp |-> Repeat(4, 9)]}

\* the input in with the fields the suite excludes taken from alt
WithExcluded(cfg, in, alt) ==
    [Counter     |-> IF cfg.IncludeCounter THEN in.Counter ELSE alt.Counter,
     Challenge   |-> IF cfg.IncludeChallenge THEN in.Challenge ELSE alt.Challenge,
     Password    |-> IF cfg.IncludePassword THEN in.Password ELSE alt.Password,
     SessionInfo |-> IF cfg.IncludeSession THEN in.SessionInfo ELSE alt.SessionInfo,
     Timestamp   |-> IF cfg.IncludeTimestamp THEN in.Timestamp ELSE alt.Timestamp]

\* C29: what GenerateOCRA returned for a secret, a suite and an input, a code
\* or an error, it returns for every input that agrees with this one on the
\* fields the suite includes, whatever the other fields hold (nothing, other
\* content, other lengths), and a code is derived from the same message bytes
\* for both; and ValidateOCRA returns the same for both, for the submitted
\* code.
C29_ExcludedFieldsIgnored ==
    /\ Returned("GenerateOCRA") =>
          \A alt \in OtherFields :
              LET other == WithExcluded(call.param[1], call.input, alt)
              IN  /\ AgreeOnIncluded(call.param[1], call.input, other)
                  /\ ret = Code(GenerateOCRA(hmacWorld, call.secret, call.param[1], other))
                  /\ ret.err = "nil" => OCRAMessage(call.param[1], other)
                                           = OCRAMessage(call.param[1], call.input)
    /\ Returned("ValidateOCRA") =>
          \A alt \in OtherFields :
              LET other == WithExcluded(call.param[1], call.input, alt)
              IN  ret = Verdict(ValidateOCRA(hmacWorld, call.secret, call.code,
                                             call.param[1], other))

\* a suite of a challenge alone has issued a code for an input whose counter,
\* password, session info and timestamp all break the rules of their fields
C29_Witness ==
    /\ Returned("GenerateOCRA") /\ call.param[1] = BaseConfig
    /\ DecodeSecret(call.secret).ok
    /\ Len(call.input.Counter) = 7 /\ Len(call.input.Password) = 19
    /\ Len(call.input.SessionInfo) = 129 /\ Len(call.input.Timestamp) = 9
    /\ Len(call.input.Challenge) = 10
    /\ ret = Code(GenerateOCRA(hmacWorld, call.secret, BaseConfig, BaseInput))
    /\ ret.err = "nil" /\ Len(ret.val) = BaseConfig.Digits

\* a URLParam the generators are meant for: issuer, account name and secret
\* given, 6, 8, 9 or 10 digits, one of the three algorithms, a period >= 1
RoundTripParam(p) ==
    /\ p.Issuer # <<>> /\ p.AccountName # <<>> /\ p.Secret # <<>>
    /\ p.Digits \in ValidDigits
    /\ p.Algorithm \in SupportedAlgorithms
    /\ p.Period >= 1

\* C30: for a URLParam with issuer, account name and secret given, whatever
\* characters they hold, 6, 8, 9 or 10 digits, one of the three algorithms
\* and a period >= 1, GenerateTOTPURL and GenerateHOTPURL return a URL from
\* which ParseOTPAuthURL returns the same issuer, account name, secret,
\* digits and algorithm, and for GenerateTOTPURL the same period.
C30_URLRoundTrip ==
    ((Returned("GenerateTOTPURL") \/ Returned("GenerateHOTPURL"))
        /\ RoundTripParam(call.param[1]))
    => /\ ret.err = "nil"
       /\ LET p    == call.param[1]
              back == ParseOTPAuthURL(<<AsParsed(ret.val[1])>>)
          IN  /\ back.err = "nil"
              /\ back.val[1].Issuer = p.Issuer
              /\ back.val[1].AccountName = p.AccountName
              /\ back.val[1].Secret = p.Secret
              /\ back.val[1].Digits = p.Digits
              /\ back.val[1].Algorithm = p.Algorithm
              /\ call.op = "GenerateTOTPURL" => back.val[1].Period = U64(p.Period)

====
